---- MODULE Spec2Model ----
(***************************************************************************)
(* A model of the Distill dialogue core: the resilient request layer       *)
(* (OpenRouterClient), the interpretation alignment phase, the             *)
(* draft-critique-revise refinement loop, the atomic note parser and the   *)
(* dialogue orchestrator.                                                   *)
(*                                                                         *)
(* Texts are TLA+ strings, handled character by character the way the      *)
(* TypeScript string methods handle them.  One step of the model is one    *)
(* JavaScript task: the synchronous run from an event (the call of         *)
(* process(), the arrival of an HTTP outcome, the firing of a backoff      *)
(* timer, a click on Cancel) to the point where every coroutine of the     *)
(* session is suspended again.                                             *)
(***************************************************************************)
EXTENDS Integers, Sequences, FiniteSets, TLC

(***************************************************************************)
(* Bounds of the model.                                                    *)
(***************************************************************************)
\* largest value of settings.maxInterpretationRounds that is explored
MaxInterpretationBudget == 4
\* largest value of settings.maxRefinementRounds that is explored
MaxRefinementBudget == 2
\* the longest text, in words, that the text functions are applied to
MaxWords == 3
\* the largest character ceiling truncateContent is applied with
MaxChars == 4
\* the longest model output, in segments, that the parser is applied to
MaxSegments == 3

(***************************************************************************)
(* Program constants (constants.ts).                                       *)
(***************************************************************************)
MAX_RETRIES == 3
RETRY_BASE_DELAY_MS == 1000
RETRY_MAX_DELAY_MS == 10000
\* the jitter of a backoff delay is Math.random() * 1000: below this, in ms
JITTER_MS == 1000
RETRYABLE_STATUS_CODES == {429, 503, 502, 504}
ALIGNMENT_KEYWORDS == <<"ALIGNED", "I AGREE WITH THIS INTERPRETATION", "WE ARE ALIGNED">>
APPROVAL_KEYWORDS == <<"APPROVED">>
MARGINAL_KEYWORDS == <<"MARGINAL">>
\* extractAlignedSummary keeps a summary only when it is longer than this
MIN_SUMMARY_LENGTH == 50

(***************************************************************************)
(* String methods.                                                         *)
(***************************************************************************)
charAt(s, i) == SubSeq(s, i, i)

\* the characters JavaScript's \s and trim() treat as white space, as far as
\* they occur in the texts of the model
isWhitespace(c) == c \in {" ", "\n", "\t"}

RECURSIVE trimStart(_)
trimStart(s) ==
  IF Len(s) > 0 /\ isWhitespace(charAt(s, 1))
  THEN trimStart(SubSeq(s, 2, Len(s)))
  ELSE s

RECURSIVE trimEnd(_)
trimEnd(s) ==
  IF Len(s) > 0 /\ isWhitespace(charAt(s, Len(s)))
  THEN trimEnd(SubSeq(s, 1, Len(s) - 1))
  ELSE s

trim(s) == trimEnd(trimStart(s))

lowerCaseLetters == "abcdefghijklmnopqrstuvwxyz"
upperCaseLetters == "ABCDEFGHIJKLMNOPQRSTUVWXYZ"

upperChar(c) ==
  IF \E i \in 1..Len(lowerCaseLetters) : charAt(lowerCaseLetters, i) = c
  THEN LET i == CHOOSE j \in 1..Len(lowerCaseLetters) : charAt(lowerCaseLetters, j) = c
       IN  charAt(upperCaseLetters, i)
  ELSE c

RECURSIVE toUpperCase(_)
toUpperCase(s) ==
  IF Len(s) = 0 THEN ""
  ELSE upperChar(charAt(s, 1)) \o toUpperCase(SubSeq(s, 2, Len(s)))

startsWith(s, prefix) ==
  /\ Len(s) >= Len(prefix)
  /\ SubSeq(s, 1, Len(prefix)) = prefix

\* String.prototype.slice(from) with a 0-based index
sliceFrom(s, from) == SubSeq(s, from + 1, Len(s))

\* String.prototype.split("\n")
RECURSIVE splitLines(_)
splitLines(s) ==
  IF \E i \in 1..Len(s) : charAt(s, i) = "\n"
  THEN LET i == CHOOSE j \in 1..Len(s) :
                  /\ charAt(s, j) = "\n"
                  /\ \A k \in 1..(j - 1) : charAt(s, k) # "\n"
       IN  <<SubSeq(s, 1, i - 1)>> \o splitLines(SubSeq(s, i + 1, Len(s)))
  ELSE <<s>>

\* Array.prototype.join("\n")
RECURSIVE joinLines(_)
joinLines(lines) ==
  IF Len(lines) = 0 THEN ""
  ELSE IF Len(lines) = 1 THEN lines[1]
  ELSE lines[1] \o "\n" \o joinLines(Tail(lines))

(***************************************************************************)
(* Response classification (InterpretationPhase, RefinementLoop).          *)
(***************************************************************************)
\* String.prototype.includes
includes(s, sub) ==
  \E i \in 1..(Len(s) - Len(sub) + 1) : SubSeq(s, i, i + Len(sub) - 1) = sub

\* String.prototype.lastIndexOf(" "): the 0-based index of the last space, -1
\* when there is none
lastIndexOfSpace(s) ==
  IF \E i \in 1..Len(s) : charAt(s, i) = " "
  THEN (CHOOSE i \in 1..Len(s) :
          /\ charAt(s, i) = " "
          /\ \A j \in (i + 1)..Len(s) : charAt(s, j) # " ") - 1
  ELSE -1

\* String.prototype.slice(0, end): a negative end counts from the end of the
\* string
sliceTo(s, end) ==
  LET last == IF end < 0
              THEN (IF Len(s) + end < 0 THEN 0 ELSE Len(s) + end)
              ELSE (IF end > Len(s) THEN Len(s) ELSE end)
  IN  SubSeq(s, 1, last)

\* the notice truncateContent appends
TRUNCATION_NOTICE == "\n\n[Content truncated for length]"

\* a truncateContent that cuts at the last space of the whole content
truncateContentAtLastSpace(content, maxChars) ==
  IF Len(content) <= maxChars
  THEN content
  ELSE sliceTo(content, lastIndexOfSpace(content)) \o TRUNCATION_NOTICE

\* InterpretationPhase.truncateContent
truncateContent(content, maxChars) ==
  IF Len(content) <= maxChars
  THEN content
  ELSE LET truncated == sliceTo(content, maxChars)
           lastSpace == lastIndexOfSpace(truncated)
       IN  sliceTo(truncated, lastSpace) \o TRUNCATION_NOTICE

\* an isAligned that looks for a keyword anywhere in the response
isAlignedIncludes(response) ==
  LET upperResponse == toUpperCase(response)
  IN  \E i \in 1..Len(ALIGNMENT_KEYWORDS) : includes(upperResponse, ALIGNMENT_KEYWORDS[i])

\* an isAligned that wants the response to be a keyword and nothing else
isAlignedExact(response) ==
  LET trimmedUpper == toUpperCase(trim(response))
  IN  \E i \in 1..Len(ALIGNMENT_KEYWORDS) : trimmedUpper = ALIGNMENT_KEYWORDS[i]

\* InterpretationPhase.isAligned
isAligned(response) ==
  LET trimmedUpper == toUpperCase(trim(response))
  IN  \E i \in 1..Len(ALIGNMENT_KEYWORDS) : startsWith(trimmedUpper, ALIGNMENT_KEYWORDS[i])

\* String.prototype.replace(/^[\s.,:\-\n]+/, "")
RECURSIVE stripLeadingPunctuation(_)
stripLeadingPunctuation(s) ==
  IF Len(s) > 0 /\ (isWhitespace(charAt(s, 1)) \/ charAt(s, 1) \in {".", ",", ":", "-"})
  THEN stripLeadingPunctuation(SubSeq(s, 2, Len(s)))
  ELSE s

\* an extractAlignedSummary that leaves the punctuation after the keyword
extractAlignedSummaryUnstripped(response, fallback) ==
  LET trimmed == trim(response)
      upperTrimmed == toUpperCase(trimmed)
      matching == {i \in 1..Len(ALIGNMENT_KEYWORDS) : startsWith(upperTrimmed, ALIGNMENT_KEYWORDS[i])}
  IN  IF matching = {} THEN fallback
      ELSE LET first == CHOOSE i \in matching : \A j \in matching : i <= j
               summary == trim(sliceFrom(trimmed, Len(ALIGNMENT_KEYWORDS[first])))
           IN  IF Len(summary) > MIN_SUMMARY_LENGTH THEN summary ELSE fallback

\* InterpretationPhase.extractAlignedSummary: the first keyword of the list that
\* the response starts with decides (the loop breaks after it)
extractAlignedSummary(response, fallback) ==
  LET trimmed == trim(response)
      upperTrimmed == toUpperCase(trimmed)
      matching == {i \in 1..Len(ALIGNMENT_KEYWORDS) : startsWith(upperTrimmed, ALIGNMENT_KEYWORDS[i])}
  IN  IF matching = {} THEN fallback
      ELSE LET first == CHOOSE i \in matching : \A j \in matching : i <= j
               afterKeyword == trim(sliceFrom(trimmed, Len(ALIGNMENT_KEYWORDS[first])))
               summary == trim(stripLeadingPunctuation(afterKeyword))
           IN  IF Len(summary) > MIN_SUMMARY_LENGTH THEN summary ELSE fallback

\* InterpretationPhase.combineInterpretations
combineInterpretations(gpt, claude) ==
  "Synthesized understanding from multiple perspectives:\n\n" \o gpt
    \o "\n\nAdditional perspective:\n" \o claude

\* a parseCritiqueStatus that looks for a keyword anywhere in the critique
parseCritiqueStatusIncludes(critique) ==
  LET upperCritique == toUpperCase(critique)
  IN  IF \E i \in 1..Len(APPROVAL_KEYWORDS) : includes(upperCritique, APPROVAL_KEYWORDS[i])
      THEN "approved"
      ELSE IF \E i \in 1..Len(MARGINAL_KEYWORDS) : includes(upperCritique, MARGINAL_KEYWORDS[i])
      THEN "marginal"
      ELSE "needs_work"

\* RefinementLoop.parseCritiqueStatus
parseCritiqueStatus(critique) ==
  LET trimmedUpper == toUpperCase(trim(critique))
  IN  IF \E i \in 1..Len(APPROVAL_KEYWORDS) : startsWith(trimmedUpper, APPROVAL_KEYWORDS[i])
      THEN "approved"
      ELSE IF \E i \in 1..Len(MARGINAL_KEYWORDS) : startsWith(trimmedUpper, MARGINAL_KEYWORDS[i])
      THEN "marginal"
      ELSE "needs_work"

(***************************************************************************)
(* AtomicNoteParser.                                                       *)
(***************************************************************************)
\* a place where /(?=^###\s)/m matches and split() cuts: the start of a line,
\* other than the start of the text, that begins with ### and a white space
isSectionStart(s, i) ==
  /\ i > 1
  /\ charAt(s, i - 1) = "\n"
  /\ i + 3 <= Len(s)
  /\ SubSeq(s, i, i + 2) = "###"
  /\ isWhitespace(charAt(s, i + 3))

\* modelOutput.split(/(?=^###\s)/m)
RECURSIVE splitSections(_)
splitSections(s) ==
  IF \E i \in 1..Len(s) : isSectionStart(s, i)
  THEN LET i == CHOOSE j \in 1..Len(s) :
                  /\ isSectionStart(s, j)
                  /\ \A k \in 1..(j - 1) : ~isSectionStart(s, k)
       IN  <<SubSeq(s, 1, i - 1)>> \o splitSections(SubSeq(s, i, Len(s)))
  ELSE <<s>>

\* /\[.+?\]\(.+?\)/.test(content)
hasMarkdownLink(content) ==
  \E i \in 1..Len(content), j \in 1..Len(content), k \in 1..Len(content) :
    /\ charAt(content, i) = "["
    /\ j >= i + 2
    /\ j + 1 <= Len(content)
    /\ SubSeq(content, j, j + 1) = "]("
    /\ k >= j + 3
    /\ charAt(content, k) = ")"
    /\ \A m \in (i + 1)..(j - 1) : charAt(content, m) # "\n"
    /\ \A m \in (j + 2)..(k - 1) : charAt(content, m) # "\n"

\* a filter that keeps every line, the blank ones too
nonBlankLinesKeepsAll(lines) == lines

\* lines.filter((line) => line.trim())
RECURSIVE nonBlankLines(_)
nonBlankLines(lines) ==
  IF Len(lines) = 0 THEN <<>>
  ELSE IF trim(lines[1]) = "" THEN nonBlankLines(Tail(lines))
  ELSE <<lines[1]>> \o nonBlankLines(Tail(lines))

\* headingLine.replace(/^###\s*/, ""): the marker and the white space after it
stripLeadingWhitespaceAfterMarker(line) ==
  IF startsWith(line, "###") THEN trimStart(sliceFrom(line, 3)) ELSE line

\* a parseSection that looks for the link in the whole section
parseSectionLinkInSection(section) ==
  LET lines == splitLines(section)
      heading == trim(stripLeadingWhitespaceAfterMarker(lines[1]))
      content == trim(joinLines(nonBlankLines(Tail(lines))))
  IN  IF Len(lines) < 2 THEN <<>>
      ELSE IF heading = "" THEN <<>>
      ELSE IF content = "" THEN <<>>
      ELSE <<[heading |-> heading,
              content |-> content,
              hasLink |-> hasMarkdownLink(section),
              raw |-> trim(section)]>>

\* AtomicNoteParser.parseSection: the empty sequence stands for null, a
\* one-element sequence for the note
parseSection(section) ==
  LET lines == splitLines(section)
      heading == trim(stripLeadingWhitespaceAfterMarker(lines[1]))
      content == trim(joinLines(nonBlankLines(Tail(lines))))
  IN  IF Len(lines) < 2 THEN <<>>
      ELSE IF heading = "" THEN <<>>
      ELSE IF content = "" THEN <<>>
      ELSE <<[heading |-> heading,
              content |-> content,
              hasLink |-> hasMarkdownLink(content),
              raw |-> trim(section)]>>

\* the loop of AtomicNoteParser.parse over the sections
RECURSIVE parseSections(_)
parseSections(sections) ==
  IF Len(sections) = 0 THEN <<>>
  ELSE LET trimmed == trim(sections[1])
       IN  (IF startsWith(trimmed, "###") THEN parseSection(trimmed) ELSE <<>>)
             \o parseSections(Tail(sections))

\* AtomicNoteParser.parse
parse(modelOutput) == parseSections(splitSections(modelOutput))

\* the limits validate() puts on the lengths of heading and content, and the
\* number of paragraphs it lets pass
HEADING_MIN_LENGTH == 10
HEADING_MAX_LENGTH == 100
CONTENT_MIN_LENGTH == 50
CONTENT_MAX_LENGTH == 1000
MAX_PARAGRAPHS == 2

\* the length of the run of line feeds that starts at position i
RECURSIVE lineFeedRun(_, _)
lineFeedRun(s, i) ==
  IF i <= Len(s) /\ charAt(s, i) = "\n" THEN 1 + lineFeedRun(s, i + 1) ELSE 0

\* content.split(/\n\n+/): the pieces between runs of two or more line feeds
RECURSIVE splitParagraphs(_)
splitParagraphs(s) ==
  IF includes(s, "\n\n")
  THEN LET i == CHOOSE j \in 1..(Len(s) - 1) :
                  /\ SubSeq(s, j, j + 1) = "\n\n"
                  /\ \A k \in 1..(j - 1) : SubSeq(s, k, k + 1) # "\n\n"
       IN  <<SubSeq(s, 1, i - 1)>>
             \o splitParagraphs(SubSeq(s, i + lineFeedRun(s, i), Len(s)))
  ELSE <<s>>

\* note.content.split(/\n\n+/).filter((p) => p.trim())
paragraphs(content) == SelectSeq(splitParagraphs(content), LAMBDA p : trim(p) # "")

\* AtomicNoteParser.extractDomain for the URLs of the model: the host of an
\* https URL (the text between the scheme and the next slash), and the text
\* itself when new URL() rejects it for the lack of a scheme
extractDomain(url) ==
  IF startsWith(url, "https://")
  THEN LET rest == sliceFrom(url, 8)
       IN  IF \E i \in 1..Len(rest) : charAt(rest, i) = "/"
           THEN SubSeq(rest, 1, (CHOOSE i \in 1..Len(rest) :
                                    /\ charAt(rest, i) = "/"
                                    /\ \A k \in 1..(i - 1) : charAt(rest, k) # "/") - 1)
           ELSE rest
  ELSE url

\* AtomicNoteParser.validate: the issues in the order they are pushed
validate(note, articleUrl) ==
  LET issues ==
        (IF Len(note.heading) < HEADING_MIN_LENGTH
         THEN <<"Heading is too short to be descriptive">> ELSE <<>>)
        \o (IF Len(note.heading) > HEADING_MAX_LENGTH
            THEN <<"Heading is too long">> ELSE <<>>)
        \o (IF Len(note.content) < CONTENT_MIN_LENGTH
            THEN <<"Content is too brief">> ELSE <<>>)
        \o (IF Len(note.content) > CONTENT_MAX_LENGTH
            THEN <<"Content may not be atomic (too long)">> ELSE <<>>)
        \o (IF ~note.hasLink
            THEN <<"Missing link to source article">> ELSE <<>>)
        \o (IF /\ note.hasLink
               /\ ~includes(note.content, articleUrl)
               /\ ~includes(note.content, extractDomain(articleUrl))
            THEN <<"Link may not point to the source article">> ELSE <<>>)
        \o (IF Len(paragraphs(note.content)) > MAX_PARAGRAPHS
            THEN <<"Contains multiple paragraphs (may not be atomic)">> ELSE <<>>)
  IN  [valid |-> Len(issues) = 0, issues |-> issues]

(***************************************************************************)
(* The transport (obsidian's requestUrl) and what it can answer.           *)
(***************************************************************************)
Roles == {"drafter", "critic"}

\* what a chat() call asks for
Kinds == {"interpretation", "alignment", "draft", "critique", "revision"}

\* the texts the text-generation service answers with, by the kind of request
Responses(kind) ==
  CASE kind = "interpretation" -> {"The thesis is X", "Aligned: the thesis"}
    [] kind = "alignment" ->
         {"I disagree: Y", "ALIGNED. We agree the article argues X.",
          " aligned:\n- The article argues that X matters because of Y and Z.",
          "We are not aligned"}
    [] kind \in {"draft", "revision"} ->
         {"### Note\nBody [t](u)", "intro\n### \nx\n### A\n\nb"}
    [] kind = "critique" -> {"APPROVED", " marginal gains", "Not approved: fix"}
    [] OTHER -> {}

\* one outcome of requestUrl: it threw (threw), or it returned a response with a
\* status and a JSON body {error?: {message, code}, choices?: [{message: {content}}]}
NoOutcome ==
  [threw |-> FALSE, status |-> -1, hasError |-> FALSE, errorMessage |-> "",
   errorCode |-> 0, choices |-> "missing", content |-> ""]
NetworkFailure == [NoOutcome EXCEPT !.threw = TRUE, !.status = 0]
HttpStatus(status) == [NoOutcome EXCEPT !.status = status]
Completion(content) ==
  [NoOutcome EXCEPT !.status = 200, !.choices = "present", !.content = content]

\* the statuses other than 200 that the transport answers with
FailureStatuses == {400, 401, 402, 403, 404, 418, 429, 500, 502, 503, 504}

\* 200 responses whose body is not a completion
MalformedBodies ==
  {[NoOutcome EXCEPT !.status = 200],
   [NoOutcome EXCEPT !.status = 200, !.choices = "empty"],
   Completion("")}

\* 200 responses that carry an error field: with a completion beside it (an
\* error message and code, and choices[0].message.content) and without
ErrorBodies(kind) ==
  {[Completion(t) EXCEPT !.hasError = TRUE, !.errorMessage = "Provider returned error",
                         !.errorCode = 502] : t \in Responses(kind)}
    \cup {[NoOutcome EXCEPT !.status = 200, !.hasError = TRUE]}

Outcomes(kind) ==
  {NetworkFailure}
    \cup {HttpStatus(s) : s \in FailureStatuses}
    \cup {Completion(t) : t \in Responses(kind)}
    \cup MalformedBodies
    \cup ErrorBodies(kind)

(***************************************************************************)
(* Errors.                                                                 *)
(***************************************************************************)
NoError == [name |-> "none", message |-> "", statusCode |-> -1, isRetryable |-> FALSE]
\* new Error("Cancelled")
CancelledError == [NoError EXCEPT !.name = "Error", !.message = "Cancelled"]
\* new OpenRouterError(message, statusCode, isRetryable)
OpenRouterError(message, statusCode, isRetryable) ==
  [name |-> "OpenRouterError", message |-> message, statusCode |-> statusCode,
   isRetryable |-> isRetryable]

(***************************************************************************)
(* OpenRouterClient.                                                       *)
(***************************************************************************)
\* the table errorMessages of handleHttpError and its default
errorMessages(status) ==
  CASE status = 400 -> "Bad request. The model ID may be invalid."
    [] status = 401 -> "Invalid API key. Please check your OpenRouter API key in settings."
    [] status = 402 -> "Insufficient credits. Please add credits to your OpenRouter account."
    [] status = 403 -> "Access forbidden. Your API key may not have access to this model."
    [] status = 404 -> "Model not found. Please select a different model in settings."
    [] status = 429 -> "Rate limited. Retrying..."
    [] status = 500 -> "OpenRouter server error. Please try again."
    [] status = 502 -> "Bad gateway. OpenRouter may be experiencing issues."
    [] status = 503 -> "Service temporarily unavailable. Retrying..."
    [] status = 504 -> "Gateway timeout. Retrying..."
    [] OTHER -> "Request failed with status " \o ToString(status)

\* a handleHttpError that takes every server error (5xx) and 429 for retryable
handleHttpErrorServerRetryable(status) ==
  OpenRouterError(errorMessages(status), status, status = 429 \/ status >= 500)

\* OpenRouterClient.handleHttpError: the error it throws
handleHttpError(status) ==
  OpenRouterError(errorMessages(status), status, status \in RETRYABLE_STATUS_CODES)

\* a makeRequest that looks for the content before the error field
makeRequestContentFirst(outcome) ==
  IF outcome.threw
  THEN [ok |-> FALSE, content |-> "",
        error |-> OpenRouterError("Network error: Failed to connect to OpenRouter", 0, TRUE)]
  ELSE IF outcome.status # 200
  THEN [ok |-> FALSE, content |-> "", error |-> handleHttpError(outcome.status)]
  ELSE IF outcome.choices = "present" /\ outcome.content # ""
  THEN [ok |-> TRUE, content |-> outcome.content, error |-> NoError]
  ELSE IF outcome.hasError
  THEN [ok |-> FALSE, content |-> "",
        error |-> OpenRouterError(
                    IF outcome.errorMessage # "" THEN outcome.errorMessage ELSE "API error",
                    IF outcome.errorCode # 0 THEN outcome.errorCode ELSE outcome.status,
                    FALSE)]
  ELSE IF outcome.choices # "present"
  THEN [ok |-> FALSE, content |-> "",
        error |-> OpenRouterError("No response from model", outcome.status, FALSE)]
  ELSE [ok |-> FALSE, content |-> "",
        error |-> OpenRouterError("Empty response from model", outcome.status, FALSE)]

\* OpenRouterClient.makeRequest on one outcome of requestUrl: the content it
\* returns (ok) or the error it throws
makeRequest(outcome) ==
  IF outcome.threw
  THEN [ok |-> FALSE, content |-> "",
        error |-> OpenRouterError("Network error: Failed to connect to OpenRouter", 0, TRUE)]
  ELSE IF outcome.status # 200
  THEN [ok |-> FALSE, content |-> "", error |-> handleHttpError(outcome.status)]
  ELSE IF outcome.hasError
  THEN [ok |-> FALSE, content |-> "",
        error |-> OpenRouterError(
                    IF outcome.errorMessage # "" THEN outcome.errorMessage ELSE "API error",
                    IF outcome.errorCode # 0 THEN outcome.errorCode ELSE outcome.status,
                    FALSE)]
  ELSE IF outcome.choices # "present"
  THEN [ok |-> FALSE, content |-> "",
        error |-> OpenRouterError("No response from model", outcome.status, FALSE)]
  ELSE IF outcome.content = ""
  THEN [ok |-> FALSE, content |-> "",
        error |-> OpenRouterError("Empty response from model", outcome.status, FALSE)]
  ELSE [ok |-> TRUE, content |-> outcome.content, error |-> NoError]

\* a backoff whose delay grows by the base delay with each attempt
backoffDelayLinear(attempt, jitter) ==
  LET delay == RETRY_BASE_DELAY_MS * (attempt + 1) + jitter
  IN  IF delay < RETRY_MAX_DELAY_MS THEN delay ELSE RETRY_MAX_DELAY_MS

\* the delay chat() waits after the retryable failure of an attempt:
\* Math.min(RETRY_BASE_DELAY_MS * Math.pow(2, attempt) + jitter, RETRY_MAX_DELAY_MS),
\* in whole milliseconds
backoffDelay(attempt, jitter) ==
  LET delay == RETRY_BASE_DELAY_MS * (2 ^ attempt) + jitter
  IN  IF delay < RETRY_MAX_DELAY_MS THEN delay ELSE RETRY_MAX_DELAY_MS

(***************************************************************************)
(* The state of one orchestrator and of the session it runs.               *)
(***************************************************************************)
VARIABLES
  maxInterpretationRounds, \* settings.maxInterpretationRounds
  maxRefinementRounds,     \* settings.maxRefinementRounds
  cancelled,               \* CancellationToken.cancelled
  callCount,               \* OpenRouterClient.callCount
  pc,                      \* where process() is suspended: "idle" before the call,
                           \* "fanout", "alignCritic", "alignDrafter", "draft",
                           \* "critique", "revise" at an await, "returned" after it
  state,                   \* the DialogueState of process()
  result,                  \* the DialogueResult process() returned
  interp,                  \* the locals of InterpretationPhase.run
  interpretationResult,    \* what InterpretationPhase.run returned
  refine,                  \* the locals of RefinementLoop.run
  refinementResult,        \* what RefinementLoop.run returned
  task,                    \* the chat() call of each role: its loop variables and
                           \* where it is suspended
  requestsWhileCancelled,  \* history: the number of requestUrl calls made while
                           \* the token was cancelled
  thrown,                  \* history: the failure that reached the catch of process()
  calls,                   \* history: the number of chat() calls made, by kind
  latest,                  \* history: the last text chat() returned, by purpose
  signalled,               \* history: whether an answer in the alignment loop began
                           \* with an alignment keyword (aligned), whether a critique
                           \* began with an approval or marginal keyword (approved)
  cancelledAt,             \* history: where the session was when cancel() was called
  countedBefore,           \* history: the number of chat() calls that had returned a
                           \* text when resetCallCount() was last called
  phases,                  \* history: the values state.phase was given, in order
  words,                   \* the words of a text handed to a function of the phases
  applied                  \* the function applied to the text and what it returned

vars ==
  <<maxInterpretationRounds, maxRefinementRounds, cancelled, callCount, pc, state,
    result, interp, interpretationResult, refine, refinementResult, task,
    requestsWhileCancelled, thrown, calls, latest, signalled, cancelledAt,
    countedBefore, phases, words, applied>>

\* a chat() call that was not made
IdleTask ==
  [st |-> "idle", kind |-> "none", messages |-> <<>>, attempt |-> 0,
   lastError |-> NoError, out |-> "", err |-> NoError,
   \* history of the call: requests made, delays waited, last outcome of
   \* requestUrl
   nreq |-> 0, nsleep |-> 0, lastOutcome |-> NoOutcome]

NoInterpretationResult ==
  [returned |-> FALSE, aligned |-> FALSE, alignedInterpretation |-> "",
   gptInterpretation |-> "", claudeInterpretation |-> "", rounds |-> 0]

NoRefinementResult ==
  [returned |-> FALSE, notes |-> <<>>, rounds |-> 0, approved |-> FALSE,
   transcript |-> <<>>]

NoResult == [returned |-> FALSE, atomicNotes |-> <<>>, totalApiCalls |-> 0]

NeverCancelled == [pc |-> "never", st |-> [r \in Roles |-> "idle"]]

\* no function was applied to the text
NotApplied ==
  [fn |-> "none", status |-> "", aligned |-> FALSE, maxChars |-> 0, truncated |-> "",
   notes |-> <<>>, attempt |-> 0, jitter |-> 0, delay |-> 0,
   note |-> 0, articleUrl |-> "", validation |-> [valid |-> FALSE, issues |-> <<>>]]

\* the state after new DialogueOrchestrator(settings), with the token of
\* createCancellationToken()
NewSession ==
  /\ cancelled = FALSE
  /\ callCount = 0
  /\ pc = "idle"
  /\ state = [phase |-> "interpreting", interpretationRounds |-> 0,
              refinementRounds |-> 0, gptInterpretation |-> "",
              claudeInterpretation |-> "", alignedInterpretation |-> "",
              currentDraft |-> <<>>, error |-> ""]
  /\ result = NoResult
  /\ interp = [round |-> 0, currentGptInterpretation |-> "",
               currentClaudeInterpretation |-> ""]
  /\ interpretationResult = NoInterpretationResult
  /\ refine = [round |-> 0, currentDraft |-> "", currentNotes |-> <<>>,
               transcript |-> <<>>]
  /\ refinementResult = NoRefinementResult
  /\ task = [r \in Roles |-> IdleTask]
  /\ requestsWhileCancelled = 0
  /\ thrown = NoError
  /\ calls = [kind \in Kinds |-> 0]
  /\ latest = [gptInterpretation |-> "", claudeInterpretation |-> "",
               draft |-> "", critique |-> ""]
  /\ signalled = [aligned |-> FALSE, approved |-> FALSE]
  /\ cancelledAt = NeverCancelled
  /\ countedBefore = 0
  /\ phases = <<"interpreting">>
  /\ applied = NotApplied

\* an orchestrator constructed with the rounds of the settings
Init ==
  /\ maxInterpretationRounds \in 1..MaxInterpretationBudget
  /\ maxRefinementRounds \in 1..MaxRefinementBudget
  /\ NewSession
  /\ words = <<>>

\* The part of the state a task of the session reads and writes, as one record:
\* the operators below map the record at the start of a synchronous run to the
\* record at its end.
Configuration ==
  [pc |-> pc, state |-> state, result |-> result, interp |-> interp,
   interpretationResult |-> interpretationResult, refine |-> refine,
   refinementResult |-> refinementResult, task |-> task, callCount |-> callCount,
   requestsWhileCancelled |-> requestsWhileCancelled, thrown |-> thrown,
   calls |-> calls, latest |-> latest, signalled |-> signalled, phases |-> phases]

Install(c) ==
  /\ pc' = c.pc
  /\ state' = c.state
  /\ result' = c.result
  /\ interp' = c.interp
  /\ interpretationResult' = c.interpretationResult
  /\ refine' = c.refine
  /\ refinementResult' = c.refinementResult
  /\ task' = c.task
  /\ callCount' = c.callCount
  /\ requestsWhileCancelled' = c.requestsWhileCancelled
  /\ thrown' = c.thrown
  /\ calls' = c.calls
  /\ latest' = c.latest
  /\ signalled' = c.signalled
  /\ phases' = c.phases

\* a process() that keeps the token to itself: the phases and chat() get none
cancellationNotPassed == FALSE

\* the token as process() hands it to InterpretationPhase.run and
\* RefinementLoop.run, which hand it to chat(): cancellation?.cancelled there
cancellation == cancelled

(***************************************************************************)
(* OpenRouterClient.chat.                                                  *)
(***************************************************************************)
\* a retry loop that counts its attempts from 0 to MAX_RETRIES inclusive
retryLoopInclusive(attempt) == attempt <= MAX_RETRIES

\* the head of the retry loop
retryLoopContinues(attempt) == attempt < MAX_RETRIES

\* a loop body without the cancellation check
attemptRequestUnchecked(t) == [t EXCEPT !.st = "inflight", !.nreq = @ + 1]

\* one pass through the top of the loop body: the cancellation check, then
\* makeRequest up to its await of requestUrl
attemptRequest(t) ==
  IF cancellation
  THEN [t EXCEPT !.st = "failed", !.err = CancelledError]
  ELSE [t EXCEPT !.st = "inflight", !.nreq = @ + 1]

\* chat(role, messages, cancellation) up to its first suspension; of the
\* messages the model keeps the texts the caller put into them
chat(kind, messages) ==
  IF retryLoopContinues(0)
  THEN attemptRequest([IdleTask EXCEPT !.kind = kind, !.messages = messages])
  ELSE [IdleTask EXCEPT !.kind = kind, !.messages = messages, !.st = "failed",
        !.err = [NoError EXCEPT !.name = "Error",
                                !.message = "Request failed after maximum retries"]]

(***************************************************************************)
(* DialogueOrchestrator.process: the failure boundary.                     *)
(***************************************************************************)
\* a catch block that does not recognise the failure as an Error
catchUnrecognised(c, error) ==
  [c EXCEPT !.state = [@ EXCEPT !.phase = "error", !.error = "Unknown error"],
            !.phases = Append(@, "error"),
            !.result = [returned |-> TRUE,
                        atomicNotes |-> c.state.currentDraft,
                        totalApiCalls |-> c.callCount],
            !.pc = "returned"]

\* the catch block of process()
catch(c, error) ==
  [c EXCEPT !.state = [@ EXCEPT !.phase = "error",
                               !.error = IF error.name \in {"Error", "OpenRouterError"}
                                         THEN error.message
                                         ELSE "Unknown error"],
            !.phases = Append(@, "error"),
            !.result = [returned |-> TRUE,
                        atomicNotes |-> c.state.currentDraft,
                        totalApiCalls |-> c.callCount],
            !.pc = "returned"]

\* a failure raised inside the try block of process(), in a phase or in chat()
throw(c, error) == catch([c EXCEPT !.thrown = error], error)

\* 1 for a request made while the token is cancelled
whileCancelled == IF cancelled THEN 1 ELSE 0

\* await this.client.chat(role, ...): the call up to its suspension; process()
\* then waits at pcNext
call(c, role, kind, messages, pcNext) ==
  LET t == chat(kind, messages)
      c1 == [c EXCEPT !.task[role] = t, !.calls[kind] = @ + 1]
  IN  IF t.st = "failed"
      THEN throw(c1, t.err)
      ELSE [c1 EXCEPT !.requestsWhileCancelled = @ + whileCancelled, !.pc = pcNext]

\* a process() that reports a run without approval as an error
processReturnErrorUnlessApproved(c, refinementRes) ==
  LET phase == IF refinementRes.approved THEN "complete" ELSE "error"
      st == [c.state EXCEPT !.refinementRounds = refinementRes.rounds,
                            !.currentDraft = refinementRes.notes,
                            !.phase = phase]
  IN  [c EXCEPT !.refinementResult = refinementRes,
                !.state = st,
                !.phases = Append(@, phase),
                !.result = [returned |-> TRUE,
                            atomicNotes |-> refinementRes.notes,
                            totalApiCalls |-> c.callCount],
                !.pc = "returned"]

\* the end of the try block of process(): RefinementLoop.run returned
processReturn(c, refinementRes) ==
  LET st == [c.state EXCEPT !.refinementRounds = refinementRes.rounds,
                            !.currentDraft = refinementRes.notes,
                            !.phase = "complete"]
  IN  [c EXCEPT !.refinementResult = refinementRes,
                !.state = st,
                !.phases = Append(@, "complete"),
                !.result = [returned |-> TRUE,
                            atomicNotes |-> refinementRes.notes,
                            totalApiCalls |-> c.callCount],
                !.pc = "returned"]

(***************************************************************************)
(* RefinementLoop.run.                                                     *)
(***************************************************************************)
TranscriptEntry(role, type, content, round) ==
  [phase |-> "refinement", role |-> role, type |-> type, content |-> content,
   round |-> round]

\* a return that discards the notes of a draft that was not approved
refinementReturnDiscards(c, rounds, approved) ==
  processReturn(c, [returned |-> TRUE,
                    notes |-> IF approved THEN c.refine.currentNotes ELSE <<>>,
                    rounds |-> rounds, approved |-> approved,
                    transcript |-> c.refine.transcript])

\* return {notes, rounds, approved, transcript}
refinementReturn(c, rounds, approved) ==
  processReturn(c, [returned |-> TRUE, notes |-> c.refine.currentNotes,
                    rounds |-> rounds, approved |-> approved,
                    transcript |-> c.refine.transcript])

\* a loop that shows the critic the initial draft in every round
refinementLoopShowsFirstDraft(c) ==
  IF c.refine.round < maxRefinementRounds
  THEN IF cancellation
       THEN throw(c, CancelledError)
       ELSE call(c, "critic", "critique", <<c.refine.transcript[1].content>>, "critique")
  ELSE refinementReturn(c, maxRefinementRounds, FALSE)

\* the head of the while loop, up to the await of the critique
refinementLoop(c) ==
  IF c.refine.round < maxRefinementRounds
  THEN IF cancellation
       THEN throw(c, CancelledError)
       ELSE call(c, "critic", "critique", <<c.refine.currentDraft>>, "critique")
  ELSE refinementReturn(c, maxRefinementRounds, FALSE)

\* a revision that replaces the draft but not the notes parsed from it
afterRevisionNotParsed(c, revision) ==
  IF cancellation
  THEN throw(c, CancelledError)
  ELSE refinementLoop(
         [c EXCEPT !.refine.currentDraft = revision,
                   !.refine.transcript =
                      Append(@, TranscriptEntry("drafter", "revision", revision,
                                                c.refine.round + 1))])

\* a revision that takes the place of the draft in the transcript
afterRevisionReplacesDraft(c, revision) ==
  IF cancellation
  THEN throw(c, CancelledError)
  ELSE refinementLoop(
         [c EXCEPT !.refine.currentDraft = revision,
                   !.refine.transcript =
                      <<TranscriptEntry("drafter", "revision", revision,
                                        c.refine.round + 1)>> \o Tail(@),
                   !.refine.currentNotes = parse(revision)])

\* from the revision's return to the next await
afterRevision(c, revision) ==
  IF cancellation
  THEN throw(c, CancelledError)
  ELSE refinementLoop(
         [c EXCEPT !.refine.currentDraft = revision,
                   !.refine.transcript =
                      Append(@, TranscriptEntry("drafter", "revision", revision,
                                                c.refine.round + 1)),
                   !.refine.currentNotes = parse(revision)])

\* a classification that leaves the loop only after the budget is exceeded
classifyCritiqueLateBreak(c, critique) ==
  LET status == parseCritiqueStatus(critique)
      next == [c EXCEPT !.refine.round = @ + 1]
  IN  IF status = "approved" \/ status = "marginal"
      THEN refinementReturn(c, c.refine.round + 1, TRUE)
      ELSE IF next.refine.round > maxRefinementRounds
      THEN refinementReturn(next, maxRefinementRounds, FALSE)
      ELSE call(next, "drafter", "revision", <<c.refine.currentDraft, critique>>, "revise")

\* a classification that goes on polishing after a marginal critique
classifyCritiqueMarginalRevises(c, critique) ==
  LET status == parseCritiqueStatus(critique)
      next == [c EXCEPT !.refine.round = @ + 1]
  IN  IF status = "approved"
      THEN refinementReturn(c, c.refine.round + 1, TRUE)
      ELSE IF next.refine.round >= maxRefinementRounds
      THEN refinementReturn(next, maxRefinementRounds, FALSE)
      ELSE call(next, "drafter", "revision", <<c.refine.currentDraft, critique>>, "revise")

\* a classification that returns the 0-based round of the approving critique
classifyCritiqueZeroBasedRounds(c, critique) ==
  LET status == parseCritiqueStatus(critique)
      next == [c EXCEPT !.refine.round = @ + 1]
  IN  IF status = "approved" \/ status = "marginal"
      THEN refinementReturn(c, c.refine.round, TRUE)
      ELSE IF next.refine.round >= maxRefinementRounds
      THEN refinementReturn(next, maxRefinementRounds, FALSE)
      ELSE call(next, "drafter", "revision", <<c.refine.currentDraft, critique>>, "revise")

\* the critique is in the transcript: classify it and return, leave the loop, or
\* ask for a revision
classifyCritique(c, critique) ==
  LET status == parseCritiqueStatus(critique)
      next == [c EXCEPT !.refine.round = @ + 1]
  IN  IF status = "approved" \/ status = "marginal"
      THEN refinementReturn(c, c.refine.round + 1, TRUE)
      ELSE IF next.refine.round >= maxRefinementRounds
      THEN refinementReturn(next, maxRefinementRounds, FALSE)
      ELSE call(next, "drafter", "revision", <<c.refine.currentDraft, critique>>, "revise")

\* a critique that is classified without the cancellation check after it
afterCritiqueUnchecked(c, critique) ==
  classifyCritique(
    [c EXCEPT !.refine.transcript =
                 Append(@, TranscriptEntry("critic", "critique", critique,
                                           c.refine.round + 1))],
    critique)

\* from the critique's return to the next await or to the return
afterCritique(c, critique) ==
  IF cancellation
  THEN throw(c, CancelledError)
  ELSE classifyCritique(
         [c EXCEPT !.refine.transcript =
                      Append(@, TranscriptEntry("critic", "critique", critique,
                                                c.refine.round + 1))],
         critique)

\* from the initial draft's return to the first critique request
afterDraft(c, draft) ==
  IF cancellation
  THEN throw(c, CancelledError)
  ELSE refinementLoop(
         [c EXCEPT !.refine = [round |-> 0,
                               currentDraft |-> draft,
                               currentNotes |-> parse(draft),
                               transcript |-> <<TranscriptEntry("drafter", "draft",
                                                                draft, 1)>>]])

\* a RefinementLoop.run that refuses an interpretation that is not aligned
refinementRunAlignedOnly(c) ==
  IF cancellation
  THEN throw(c, CancelledError)
  ELSE IF ~c.interpretationResult.aligned
  THEN throw(c, [NoError EXCEPT !.name = "Error", !.message = "Not aligned"])
  ELSE call(c, "drafter", "draft", <<c.interpretationResult.alignedInterpretation>>, "draft")

\* RefinementLoop.run up to its first await
refinementRun(c) ==
  IF cancellation
  THEN throw(c, CancelledError)
  ELSE call(c, "drafter", "draft", <<c.interpretationResult.alignedInterpretation>>, "draft")

(***************************************************************************)
(* DialogueOrchestrator.process between the two phases.                    *)
(***************************************************************************)
\* InterpretationPhase.run returned: the state is updated, the token is checked
\* and RefinementLoop.run is called
interpretationReturn(c, aligned, alignedInterpretation, rounds) ==
  LET res == [returned |-> TRUE, aligned |-> aligned,
              alignedInterpretation |-> alignedInterpretation,
              gptInterpretation |-> c.interp.currentGptInterpretation,
              claudeInterpretation |-> c.interp.currentClaudeInterpretation,
              rounds |-> rounds]
      st == [c.state EXCEPT !.interpretationRounds = res.rounds,
                            !.gptInterpretation = res.gptInterpretation,
                            !.claudeInterpretation = res.claudeInterpretation,
                            !.alignedInterpretation = res.alignedInterpretation,
                            !.phase = "aligned"]
      c1 == [c EXCEPT !.interpretationResult = res, !.state = st,
                      !.phases = Append(@, "aligned")]
  IN  IF cancelled
      THEN throw(c1, CancelledError)
      ELSE refinementRun([c1 EXCEPT !.state.phase = "drafting",
                                    !.phases = Append(@, "drafting")])

(***************************************************************************)
(* InterpretationPhase.run.                                                *)
(***************************************************************************)
\* max rounds reached: the synthesized interpretation
interpretationExhausted(c) ==
  interpretationReturn(c, FALSE,
    combineInterpretations(c.interp.currentGptInterpretation,
                           c.interp.currentClaudeInterpretation),
    maxInterpretationRounds)

\* a loop that goes on while the round is at most the budget
alignmentLoopInclusive(c) ==
  IF c.interp.round <= maxInterpretationRounds
  THEN IF cancellation
       THEN throw(c, CancelledError)
       ELSE call(c, "critic", "alignment",
                 <<c.interp.currentClaudeInterpretation, c.interp.currentGptInterpretation>>,
                 "alignCritic")
  ELSE interpretationExhausted(c)

\* the head of the while loop, up to the await of the critic's answer
alignmentLoop(c) ==
  IF c.interp.round < maxInterpretationRounds
  THEN IF cancellation
       THEN throw(c, CancelledError)
       ELSE call(c, "critic", "alignment",
                 <<c.interp.currentClaudeInterpretation, c.interp.currentGptInterpretation>>,
                 "alignCritic")
  ELSE interpretationExhausted(c)

\* a disagreement by the drafter that advances the round and keeps the
\* drafter's earlier interpretation
afterAlignDrafterKeepsInterpretation(c, gptResponse) ==
  IF cancellation
  THEN throw(c, CancelledError)
  ELSE IF isAligned(gptResponse)
  THEN interpretationReturn(c, TRUE,
         extractAlignedSummary(gptResponse, c.interp.currentClaudeInterpretation),
         c.interp.round + 1)
  ELSE alignmentLoop([c EXCEPT !.interp.round = @ + 1])

\* from the drafter's answer to the next await or to the return
afterAlignDrafter(c, gptResponse) ==
  IF cancellation
  THEN throw(c, CancelledError)
  ELSE IF isAligned(gptResponse)
  THEN interpretationReturn(c, TRUE,
         extractAlignedSummary(gptResponse, c.interp.currentClaudeInterpretation),
         c.interp.round + 1)
  ELSE alignmentLoop([c EXCEPT !.interp.currentGptInterpretation = gptResponse,
                               !.interp.round = @ + 1])

\* a disagreement that always goes on to ask the drafter
criticDisagreedNoBreak(c, claudeResponse) ==
  LET next == [c EXCEPT !.interp.currentClaudeInterpretation = claudeResponse,
                        !.interp.round = @ + 1]
  IN  call(next, "drafter", "alignment",
           <<next.interp.currentGptInterpretation,
             next.interp.currentClaudeInterpretation>>,
           "alignDrafter")

\* the critic disagreed: its interpretation is replaced, the round advances and
\* the loop is left or the drafter is asked
criticDisagreed(c, claudeResponse) ==
  LET next == [c EXCEPT !.interp.currentClaudeInterpretation = claudeResponse,
                        !.interp.round = @ + 1]
  IN  IF next.interp.round >= maxInterpretationRounds
      THEN interpretationExhausted(next)
      ELSE call(next, "drafter", "alignment",
                <<next.interp.currentGptInterpretation,
                  next.interp.currentClaudeInterpretation>>,
                "alignDrafter")

\* an alignment by the critic that falls back to the critic's own interpretation
afterAlignCriticOwnFallback(c, claudeResponse) ==
  IF cancellation
  THEN throw(c, CancelledError)
  ELSE IF isAligned(claudeResponse)
  THEN interpretationReturn(c, TRUE,
         extractAlignedSummary(claudeResponse, c.interp.currentClaudeInterpretation),
         c.interp.round + 1)
  ELSE criticDisagreed(c, claudeResponse)

\* from the critic's answer to the next await or to the return
afterAlignCritic(c, claudeResponse) ==
  IF cancellation
  THEN throw(c, CancelledError)
  ELSE IF isAligned(claudeResponse)
  THEN interpretationReturn(c, TRUE,
         extractAlignedSummary(claudeResponse, c.interp.currentGptInterpretation),
         c.interp.round + 1)
  ELSE criticDisagreed(c, claudeResponse)

\* Promise.all resolved with both initial interpretations
afterFanOut(c, gptInterpretation, claudeInterpretation) ==
  IF cancellation
  THEN throw(c, CancelledError)
  ELSE alignmentLoop([c EXCEPT !.interp = [round |-> 1,
                                           currentGptInterpretation |-> gptInterpretation,
                                           currentClaudeInterpretation |-> claudeInterpretation]])

\* InterpretationPhase.run up to the await of Promise.all: both chat() calls
\* are made, the drafter's first, before the phase suspends; Promise.all rejects
\* with the first rejection
interpretationRun(c) ==
  IF cancellation
  THEN throw(c, CancelledError)
  ELSE LET d == chat("interpretation", <<>>)
           k == chat("interpretation", <<>>)
           issued == Cardinality({r \in Roles :
                        (IF r = "drafter" THEN d ELSE k).st = "inflight"})
           c1 == [c EXCEPT !.task = [r \in Roles |-> IF r = "drafter" THEN d ELSE k],
                           !.calls["interpretation"] = @ + 2,
                           !.requestsWhileCancelled = @ + issued * whileCancelled,
                           !.pc = "fanout"]
       IN  IF d.st = "failed" THEN throw(c1, d.err)
           ELSE IF k.st = "failed" THEN throw(c1, k.err)
           ELSE c1

(***************************************************************************)
(* The continuation of a chat() call when its await settles.               *)
(***************************************************************************)
otherRole(role) == IF role = "drafter" THEN "critic" ELSE "drafter"

\* a caller that goes on with the first initial interpretation that arrives
resumeWithoutJoin(c, role, text) ==
  CASE c.pc = "fanout" -> afterFanOut(c, c.task["drafter"].out, c.task["critic"].out)
    [] c.pc = "alignCritic" -> afterAlignCritic(c, text)
    [] c.pc = "alignDrafter" -> afterAlignDrafter(c, text)
    [] c.pc = "draft" -> afterDraft(c, text)
    [] c.pc = "critique" -> afterCritique(c, text)
    [] c.pc = "revise" -> afterRevision(c, text)
    [] OTHER -> c

\* the caller of chat() resumes with the text: process() is suspended in one of
\* the phases, or has returned already (the call was left behind by Promise.all)
resume(c, role, text) ==
  CASE c.pc = "fanout" ->
         IF c.task[otherRole(role)].st = "done"
         THEN afterFanOut(c, c.task["drafter"].out, c.task["critic"].out)
         ELSE c
    [] c.pc = "alignCritic" -> afterAlignCritic(c, text)
    [] c.pc = "alignDrafter" -> afterAlignDrafter(c, text)
    [] c.pc = "draft" -> afterDraft(c, text)
    [] c.pc = "critique" -> afterCritique(c, text)
    [] c.pc = "revise" -> afterRevision(c, text)
    [] OTHER -> c

\* history: the text chat() returned to role for a request of this kind
heard(last, role, kind, text) ==
  CASE kind \in {"interpretation", "alignment"} /\ role = "drafter" ->
         [last EXCEPT !.gptInterpretation = text]
    [] kind \in {"interpretation", "alignment"} /\ role = "critic" ->
         [last EXCEPT !.claudeInterpretation = text]
    [] kind \in {"draft", "revision"} -> [last EXCEPT !.draft = text]
    [] kind = "critique" -> [last EXCEPT !.critique = text]
    [] OTHER -> last

\* history: the keyword the text of an alignment answer or a critique begins with
keywordHeard(seen, kind, text) ==
  LET trimmedUpper == toUpperCase(trim(text))
      begins(keywords) == \E i \in 1..Len(keywords) : startsWith(trimmedUpper, keywords[i])
  IN  CASE kind = "alignment" /\ begins(ALIGNMENT_KEYWORDS) -> [seen EXCEPT !.aligned = TRUE]
        [] kind = "critique" /\ begins(APPROVAL_KEYWORDS \o MARGINAL_KEYWORDS) ->
             [seen EXCEPT !.approved = TRUE]
        [] OTHER -> seen

\* chat() after makeRequest returned: this.callCount++; return result (the
\* locals of the call are gone with it)
resolve(c, role, text) ==
  resume([c EXCEPT !.task[role] = [IdleTask EXCEPT !.st = "done",
                                                   !.kind = c.task[role].kind,
                                                   !.out = text,
                                                   !.lastOutcome = c.task[role].lastOutcome],
                   !.callCount = @ + 1,
                   !.latest = heard(@, role, c.task[role].kind, text),
                   !.signalled = keywordHeard(@, c.task[role].kind, text)],
         role, text)

\* chat() throws: the caller's await rejects, which process() catches unless it
\* has returned already
reject(c, role, error) ==
  LET c1 == [c EXCEPT !.task[role] = [@ EXCEPT !.st = "failed", !.err = error]]
  IN  IF c.pc = "returned" THEN c1 ELSE throw(c1, error)

\* a catch block that counts the failed attempt
chatCatchCounted(c, role, error) ==
  LET c1 == [c EXCEPT !.task[role].lastError = error, !.callCount = @ + 1]
  IN  IF error.name = "OpenRouterError" /\ error.isRetryable
      THEN [c1 EXCEPT !.task[role].st = "sleeping", !.task[role].nsleep = @ + 1]
      ELSE reject(c1, role, error)

\* a catch block that throws the error of the final attempt without a delay
chatCatchNoFinalDelay(c, role, error) ==
  LET c1 == [c EXCEPT !.task[role].lastError = error]
  IN  IF /\ error.name = "OpenRouterError" /\ error.isRetryable
         /\ c.task[role].attempt < MAX_RETRIES - 1
      THEN [c1 EXCEPT !.task[role].st = "sleeping", !.task[role].nsleep = @ + 1]
      ELSE reject(c1, role, error)

\* the catch block of chat(): a retryable OpenRouterError starts the backoff
\* delay, any other error is thrown on
chatCatch(c, role, error) ==
  LET c1 == [c EXCEPT !.task[role].lastError = error]
  IN  IF error.name = "OpenRouterError" /\ error.isRetryable
      THEN [c1 EXCEPT !.task[role].st = "sleeping", !.task[role].nsleep = @ + 1]
      ELSE reject(c1, role, error)

\* requestUrl settled with outcome: the rest of makeRequest and of the loop body
settle(c, role, outcome) ==
  LET res == makeRequest(outcome)
      c1 == [c EXCEPT !.task[role].lastOutcome = outcome]
  IN  IF res.ok
      THEN resolve(c1, role, res.content)
      ELSE chatCatch(c1, role, res.error)

\* the backoff delay elapsed: continue, attempt++, the head of the loop and, if
\* it is left, the throw after it
wake(c, role) ==
  LET t1 == [c.task[role] EXCEPT !.attempt = @ + 1]
      t2 == attemptRequest(t1)
  IN  IF retryLoopContinues(t1.attempt)
      THEN IF t2.st = "failed"
           THEN reject([c EXCEPT !.task[role] = t2], role, t2.err)
           ELSE [c EXCEPT !.task[role] = t2,
                          !.requestsWhileCancelled = @ + whileCancelled]
      ELSE reject([c EXCEPT !.task[role] = t1], role,
                  IF t1.lastError.name # "none" THEN t1.lastError
                  ELSE [NoError EXCEPT !.name = "Error",
                                       !.message = "Request failed after maximum retries"])

(***************************************************************************)
(* Actions.                                                                *)
(***************************************************************************)
\* orchestrator.process(article, onProgress, cancellation) is called
Process ==
  /\ pc = "idle"
  /\ Install(interpretationRun(Configuration))
  /\ UNCHANGED <<maxInterpretationRounds, maxRefinementRounds, cancelled, cancelledAt,
                 countedBefore, words, applied>>

\* the transport settles the request a chat() call is waiting for
RequestSettles ==
  \E role \in Roles :
    /\ task[role].st = "inflight"
    /\ \E outcome \in Outcomes(task[role].kind) :
         Install(settle(Configuration, role, outcome))
    /\ UNCHANGED <<maxInterpretationRounds, maxRefinementRounds, cancelled, cancelledAt,
                 countedBefore, words, applied>>

\* the timer of a backoff delay fires
BackoffElapses ==
  \E role \in Roles :
    /\ task[role].st = "sleeping"
    /\ Install(wake(Configuration, role))
    /\ UNCHANGED <<maxInterpretationRounds, maxRefinementRounds, cancelled, cancelledAt,
                 countedBefore, words, applied>>

\* token.cancel(): the user cancels, before, during or after the session
Cancel ==
  /\ ~cancelled
  /\ cancelled' = TRUE
  /\ cancelledAt' = [pc |-> pc, st |-> [r \in Roles |-> task[r].st]]
  /\ UNCHANGED <<maxInterpretationRounds, maxRefinementRounds, callCount, pc, state,
                 result, interp, interpretationResult, refine, refinementResult,
                 task, requestsWhileCancelled, thrown, calls, latest, signalled,
                 countedBefore, phases, words, applied>>

\* the chat() calls of the session that have returned a text: those made, less
\* those still running and those that failed
returnedCalls ==
  calls["interpretation"] + calls["alignment"] + calls["draft"] + calls["critique"]
    + calls["revision"]
    - Cardinality({r \in Roles : task[r].st \in {"inflight", "sleeping", "failed"}})

\* OpenRouterClient.resetCallCount: the value it gives the counter
resetCallCount == 0

\* orchestrator.reset(): the caller resets the counter between sessions, after
\* process() returned (a chat() call left behind by Promise.all may still run)
Reset ==
  /\ pc = "returned"
  /\ callCount # 0
  /\ callCount' = resetCallCount
  /\ countedBefore' = returnedCalls
  /\ UNCHANGED <<maxInterpretationRounds, maxRefinementRounds, cancelled, pc, state,
                 result, interp, interpretationResult, refine, refinementResult,
                 task, requestsWhileCancelled, thrown, calls, latest, signalled,
                 cancelledAt, phases, words, applied>>

Next == Process \/ RequestSettles \/ BackoffElapses \/ Cancel \/ Reset

Spec == Init /\ [][Next]_vars

(***************************************************************************)
(* One orchestrator used for several articles, one process() after another.*)
(***************************************************************************)
\* process() is called again only while the counter is at most this
MaxCarriedCalls == 4

\* an orchestrator whose client is made anew for every article
reuseWithNewClient(c) ==
  [pc |-> "idle",
   state |-> [phase |-> "interpreting", interpretationRounds |-> 0,
              refinementRounds |-> 0, gptInterpretation |-> "",
              claudeInterpretation |-> "", alignedInterpretation |-> "",
              currentDraft |-> <<>>, error |-> ""],
   result |-> NoResult,
   interp |-> [round |-> 0, currentGptInterpretation |-> "",
               currentClaudeInterpretation |-> ""],
   interpretationResult |-> NoInterpretationResult,
   refine |-> [round |-> 0, currentDraft |-> "", currentNotes |-> <<>>,
               transcript |-> <<>>],
   refinementResult |-> NoRefinementResult,
   task |-> [r \in Roles |-> IdleTask],
   callCount |-> 0,
   requestsWhileCancelled |-> 0,
   thrown |-> NoError,
   calls |-> [kind \in Kinds |-> 0],
   latest |-> [gptInterpretation |-> "", claudeInterpretation |-> "",
               draft |-> "", critique |-> ""],
   signalled |-> [aligned |-> FALSE, approved |-> FALSE],
   phases |-> <<"interpreting">>]

\* the orchestrator before its next process(): the client made by the
\* constructor, and with it the counter, stays; the DialogueState and the locals
\* of the phases are those of a new call, and the histories start again
reuse(c) ==
  [pc |-> "idle",
   state |-> [phase |-> "interpreting", interpretationRounds |-> 0,
              refinementRounds |-> 0, gptInterpretation |-> "",
              claudeInterpretation |-> "", alignedInterpretation |-> "",
              currentDraft |-> <<>>, error |-> ""],
   result |-> NoResult,
   interp |-> [round |-> 0, currentGptInterpretation |-> "",
               currentClaudeInterpretation |-> ""],
   interpretationResult |-> NoInterpretationResult,
   refine |-> [round |-> 0, currentDraft |-> "", currentNotes |-> <<>>,
               transcript |-> <<>>],
   refinementResult |-> NoRefinementResult,
   task |-> [r \in Roles |-> IdleTask],
   callCount |-> c.callCount,
   requestsWhileCancelled |-> 0,
   thrown |-> NoError,
   calls |-> [kind \in Kinds |-> 0],
   latest |-> [gptInterpretation |-> "", claudeInterpretation |-> "",
               draft |-> "", critique |-> ""],
   signalled |-> [aligned |-> FALSE, approved |-> FALSE],
   phases |-> <<"interpreting">>]

\* an orchestrator with one round of each phase
ReuseInit ==
  /\ maxInterpretationRounds = 1
  /\ maxRefinementRounds = 1
  /\ NewSession
  /\ words = <<>>

\* the caller has taken the result and turns to the next article with a new
\* token, once no chat() call of the earlier run is left running; countedBefore
\* is lowered by the calls of that run that returned a text, so that the calls
\* that returned a text since the last reset stay returnedCalls - countedBefore
NextArticle ==
  /\ pc = "returned"
  /\ \A r \in Roles : task[r].st \notin {"inflight", "sleeping"}
  /\ callCount <= MaxCarriedCalls
  /\ Install(reuse(Configuration))
  /\ cancelled' = FALSE
  /\ cancelledAt' = NeverCancelled
  /\ countedBefore' = countedBefore - returnedCalls
  /\ UNCHANGED <<maxInterpretationRounds, maxRefinementRounds, words, applied>>

ReuseNext == Next \/ NextArticle

ReuseSpec == ReuseInit /\ [][ReuseNext]_vars

(***************************************************************************)
(* The text functions of the phases, applied to texts of a few words.      *)
(***************************************************************************)
\* the words the texts are made of: keywords in several spellings, white space
\* and other words
Vocabulary ==
  {"APPROVED", "approved.", "Marginal", "aligned", "We are aligned",
   "I agree with this interpretation", "not ", " ", "\n", "x"}

RECURSIVE joinWords(_)
joinWords(ws) == IF Len(ws) = 0 THEN "" ELSE ws[1] \o joinWords(Tail(ws))

\* the response, critique or article content the functions get
text == joinWords(words)

\* an idle orchestrator and a text of at most MaxWords words
TextInit ==
  /\ maxInterpretationRounds = 1
  /\ maxRefinementRounds = 1
  /\ NewSession
  /\ words \in UNION {[1..n -> Vocabulary] : n \in 0..MaxWords}

session ==
  <<maxInterpretationRounds, maxRefinementRounds, cancelled, callCount, pc, state,
    result, interp, interpretationResult, refine, refinementResult, task,
    requestsWhileCancelled, thrown, calls, latest, signalled, cancelledAt,
    countedBefore, phases>>

\* this.parseCritiqueStatus(critique)
ParseCritiqueStatus ==
  /\ applied' = [NotApplied EXCEPT !.fn = "parseCritiqueStatus",
                                   !.status = parseCritiqueStatus(text)]
  /\ UNCHANGED <<session, words>>

\* this.isAligned(response)
IsAligned ==
  /\ applied' = [NotApplied EXCEPT !.fn = "isAligned", !.aligned = isAligned(text)]
  /\ UNCHANGED <<session, words>>

\* this.truncateContent(article.content, maxChars)
TruncateContent ==
  \E maxChars \in 0..MaxChars :
    /\ applied' = [NotApplied EXCEPT !.fn = "truncateContent",
                                     !.maxChars = maxChars,
                                     !.truncated = truncateContent(text, maxChars)]
    /\ UNCHANGED <<session, words>>

TextNext == ParseCritiqueStatus \/ IsAligned \/ TruncateContent

TextSpec == TextInit /\ [][TextNext]_vars

(***************************************************************************)
(* The note parser, applied to model outputs of a few segments.            *)
(***************************************************************************)
\* segments a model writes: a heading line and a body
WellFormedSegments ==
  {"### A\nb\n", "### L\n\n[t](u)\n", "### [t](u)\nz\n", "### P\np\n\n[t](u)\n\n\nq\n"}

\* segments with a heading marker that lack a heading or a body
MalformedSegments ==
  {"### \nx\n", "### C\n", "### D\n \n"}

\* text without a heading marker: plain text, ### without a space after it, a
\* heading of another level
PlainTexts ==
  {"intro\n", "###x\ny\n", "#### E\nf\n"}

Segments == WellFormedSegments \cup MalformedSegments \cup PlainTexts

\* the text the parser gets
modelOutput == joinWords(words)

\* an idle orchestrator and a model output of at most MaxSegments segments
ParseInit ==
  /\ maxInterpretationRounds = 1
  /\ maxRefinementRounds = 1
  /\ NewSession
  /\ words \in UNION {[1..n -> Segments] : n \in 0..MaxSegments}

\* parser.parse(modelOutput)
Parse ==
  /\ applied' = [NotApplied EXCEPT !.fn = "parse", !.notes = parse(modelOutput)]
  /\ UNCHANGED <<session, words>>

\* the URLs of the article: the one the notes link to, one of its host, and
\* one of another host
ArticleUrls == {"u", "https://u/a", "https://e.com/a"}

\* parser.validate(note, articleUrl) for one of the notes parse returned
Validate ==
  \E i \in 1..Len(applied.notes), articleUrl \in ArticleUrls :
    /\ applied.fn = "parse"
    /\ applied' = [applied EXCEPT !.fn = "validate",
                                  !.note = i,
                                  !.articleUrl = articleUrl,
                                  !.validation = validate(applied.notes[i], articleUrl)]
    /\ UNCHANGED <<session, words>>

ParseNext == Parse \/ Validate

ParseSpec == ParseInit /\ [][ParseNext]_vars

(***************************************************************************)
(* The backoff delay of chat(), for every attempt and every jitter.        *)
(***************************************************************************)
\* an idle orchestrator
BackoffInit ==
  /\ maxInterpretationRounds = 1
  /\ maxRefinementRounds = 1
  /\ NewSession
  /\ words = <<>>

\* the delay computed in the catch block of chat(): attempt is the loop
\* variable, jitter what Math.random() * 1000 gave
BackoffDelay ==
  \E attempt \in 0..(MAX_RETRIES - 1), jitter \in 0..(JITTER_MS - 1) :
    /\ applied = NotApplied
    /\ applied' = [NotApplied EXCEPT !.fn = "backoffDelay",
                                     !.attempt = attempt,
                                     !.jitter = jitter,
                                     !.delay = backoffDelay(attempt, jitter)]
    /\ UNCHANGED <<session, words>>

BackoffNext == BackoffDelay

BackoffSpec == BackoffInit /\ [][BackoffNext]_vars

(***************************************************************************)
(* What the session guarantees.                                            *)
(***************************************************************************)
\* process() was called and has returned under a token that was cancelled while
\* it ran
cancelledBeforeReturn == result.returned /\ cancelledAt.pc \notin {"never", "returned"}

\* C1: a failure raised in a phase or in chat() never leaves process(): once a
\* failure was raised, and once any chat() call of the session has failed,
\* process() has returned a result whose phase is 'error', and state.error is
\* the message of the failure that was raised.
C1_FailureBecomesErrorResult ==
  /\ thrown # NoError =>
        /\ pc = "returned" /\ result.returned
        /\ state.phase = "error"
        /\ state.error = thrown.message
  /\ \A r \in Roles : task[r].st = "failed" =>
        pc = "returned" /\ result.returned /\ state.phase = "error"

\* a session whose refinement loop was running when the service failed
C1_Witness ==
  /\ result.returned
  /\ thrown.name = "OpenRouterError"
  /\ state.error = "Invalid API key. Please check your OpenRouter API key in settings."
  /\ state.phase = "error"
  /\ calls["critique"] >= 1

\* C2: when InterpretationPhase.run returns with N = maxInterpretationRounds and
\* no answer of the alignment loop began with an alignment keyword, it made the 2
\* initial requests and N - 1 alignment requests, and it returned aligned =
\* false, rounds = N and the concatenation of both models' latest
\* interpretations as alignedInterpretation.
C2_InterpretationExhausted ==
  (interpretationResult.returned /\ ~signalled.aligned) =>
     /\ calls["interpretation"] = 2
     /\ calls["alignment"] = maxInterpretationRounds - 1
     /\ interpretationResult.aligned = FALSE
     /\ interpretationResult.rounds = maxInterpretationRounds
     /\ interpretationResult.alignedInterpretation =
          combineInterpretations(latest.gptInterpretation, latest.claudeInterpretation)

\* two rounds without agreement, the critic's last answer in the synthesis
C2_Witness ==
  /\ interpretationResult.returned
  /\ ~signalled.aligned
  /\ maxInterpretationRounds = 2
  /\ calls["alignment"] = 1
  /\ interpretationResult.rounds = 2
  /\ latest.claudeInterpretation = "We are not aligned"
  /\ interpretationResult.alignedInterpretation =
       "Synthesized understanding from multiple perspectives:\n\nThe thesis is X"
         \o "\n\nAdditional perspective:\nWe are not aligned"

\* C3: when RefinementLoop.run returns with N = maxRefinementRounds and no
\* critique began with an approval or marginal keyword, it made N critique
\* requests, and it returned approved = false, rounds = N and the notes parsed
\* from the last draft the drafter produced.
C3_RefinementExhausted ==
  (refinementResult.returned /\ ~signalled.approved) =>
     /\ calls["critique"] = maxRefinementRounds
     /\ refinementResult.approved = FALSE
     /\ refinementResult.rounds = maxRefinementRounds
     /\ refinementResult.notes = parse(latest.draft)

\* two critiques without approval, a revision whose notes differ from the draft's
C3_Witness ==
  /\ refinementResult.returned
  /\ ~signalled.approved
  /\ maxRefinementRounds = 2
  /\ calls["critique"] = 2
  /\ calls["revision"] = 1
  /\ Len(refinementResult.transcript) = 4
  /\ refinementResult.transcript[1].content # latest.draft
  /\ refinementResult.notes = parse(latest.draft)
  /\ refinementResult.notes # parse(refinementResult.transcript[1].content)

\* C4: when the token is cancelled at the time process() is called, process()
\* returns in the same step and neither chat() call has issued an HTTP request.
C4_CancelledAtCallNoRequest ==
  (cancelledAt.pc = "idle" /\ pc # "idle") =>
     /\ pc = "returned" /\ result.returned
     /\ \A r \in Roles : task[r].nreq = 0 /\ task[r].st \notin {"inflight", "sleeping"}

\* process() was called with a cancelled token and returned
C4_Witness ==
  /\ cancelledAt.pc = "idle"
  /\ result.returned
  /\ state.error = "Cancelled"
  /\ \A r \in Roles : task[r].nreq = 0

\* C5: when the token is cancelled while process() runs, the state process()
\* returns is never in phase 'complete'.
C5_CancelledNeverComplete ==
  cancelledBeforeReturn => state.phase # "complete"

\* cancelled while the critique was awaited; the critique then approved the
\* draft, and the session still ended in 'error'
C5_Witness ==
  /\ cancelledBeforeReturn
  /\ cancelledAt.pc = "critique"
  /\ task["critic"].st = "done"
  /\ parseCritiqueStatus(task["critic"].out) = "approved"
  /\ state.phase = "error"

\* C6: whenever the token is cancelled while process() runs, the error of the
\* returned state is 'Cancelled' and not the message of a network, HTTP or API
\* error, also when the request in flight at the cancellation then fails and
\* when a backoff delay was pending.
C6_CancelledReportsCancelled ==
  cancelledBeforeReturn => state.error = "Cancelled"

\* C7: no HTTP request is issued while the token is cancelled: a request in
\* flight under a cancelled token was in flight when cancel() was called, and a
\* chat() call that raised Cancelled has failed with it instead of retrying.
C7_NoRequestOnceCancelled ==
  /\ requestsWhileCancelled = 0
  /\ \A r \in Roles :
        /\ (cancelled /\ task[r].st = "inflight") => cancelledAt.st[r] = "inflight"
        /\ task[r].err = CancelledError =>
              task[r].st = "failed" /\ task[r].lastError # CancelledError

\* cancelled during a retryable failure or its backoff delay: the check before
\* the next attempt raised Cancelled and no request followed the delay
C7_Witness ==
  \E r \in Roles :
    /\ cancelled
    /\ cancelledAt.st[r] \in {"inflight", "sleeping"}
    /\ task[r].st = "failed"
    /\ task[r].err = CancelledError
    /\ task[r].nsleep >= 1
    /\ task[r].nreq = task[r].nsleep

\* C8: a chat() call never makes more than MAX_RETRIES = 3 requests, and a call
\* that failed with a retryable error made exactly 3, failed with the error of
\* its last attempt, and left the call counter at the number of calls that
\* returned.
C8_RetriesExhausted ==
  \A r \in Roles :
    /\ task[r].nreq <= MAX_RETRIES
    /\ (task[r].st = "failed" /\ task[r].err.isRetryable) =>
          /\ task[r].nreq = MAX_RETRIES
          /\ task[r].err = makeRequest(task[r].lastOutcome).error
          /\ callCount = returnedCalls - countedBefore

\* two network failures and a 504: the call failed with the 504's error
C8_Witness ==
  \E r \in Roles :
    /\ task[r].st = "failed"
    /\ task[r].err.isRetryable
    /\ task[r].nreq = 3
    /\ task[r].lastOutcome = HttpStatus(504)
    /\ task[r].err.message = "Gateway timeout. Retrying..."
    /\ task[r].err.statusCode = 504
    /\ callCount = 0

\* a response that is a non-retryable status other than 200, or a 200 without an
\* error field whose choices are missing or whose content is empty
terminalResponse(o) ==
  /\ o # NoOutcome
  /\ ~o.threw
  /\ \/ o.status # 200 /\ o.status \notin RETRYABLE_STATUS_CODES
     \/ o.status = 200 /\ ~o.hasError /\ (o.choices # "present" \/ o.content = "")

\* C9: when the last response a chat() call got is a non-retryable status other
\* than 200, or a 200 with missing choices or empty content, the call has failed
\* with a non-retryable error carrying that status, no request and no delay
\* followed the response (a call whose first response it is made exactly one
\* request and waited for no delay), and process() has returned the error.
C9_TerminalResponseNotRetried ==
  \A r \in Roles :
    terminalResponse(task[r].lastOutcome) =>
      /\ task[r].st = "failed"
      /\ task[r].err.name = "OpenRouterError"
      /\ ~task[r].err.isRetryable
      /\ task[r].err.statusCode = task[r].lastOutcome.status
      /\ task[r].err.message =
           (IF task[r].lastOutcome.status # 200
            THEN errorMessages(task[r].lastOutcome.status)
            ELSE IF task[r].lastOutcome.choices # "present"
            THEN "No response from model"
            ELSE "Empty response from model")
      /\ task[r].nreq = task[r].nsleep + 1
      /\ result.returned /\ state.phase = "error"

\* the critic's first request is answered 401, the drafter's first request a 200
\* with empty content: one request each, no delay
C9_Witness ==
  /\ task["critic"].lastOutcome = HttpStatus(401)
  /\ task["drafter"].lastOutcome = Completion("")
  /\ \A r \in Roles : task[r].st = "failed" /\ task[r].nreq = 1 /\ task[r].nsleep = 0
  /\ state.error = "Invalid API key. Please check your OpenRouter API key in settings."

\* C10: when the last response a chat() call got is a 200 whose body carries an
\* error field beside non-empty content, the call has failed with the error
\* field's message, non-retryable, it returned no text, no request and no delay
\* followed the response, and the call counter counts only the calls that
\* returned.
C10_ErrorFieldIsFailure ==
  \A r \in Roles :
    LET o == task[r].lastOutcome
    IN  (o.status = 200 /\ o.hasError /\ o.choices = "present" /\ o.content # "") =>
          /\ task[r].st = "failed"
          /\ task[r].out = ""
          /\ task[r].err.name = "OpenRouterError"
          /\ task[r].err.message = o.errorMessage
          /\ ~task[r].err.isRetryable
          /\ task[r].nreq = task[r].nsleep + 1
          /\ callCount = returnedCalls - countedBefore

\* the draft request is answered 200 with an error field and a full draft
C10_Witness ==
  /\ task["drafter"].kind = "draft"
  /\ task["drafter"].lastOutcome.hasError
  /\ task["drafter"].lastOutcome.content = "### Note\nBody [t](u)"
  /\ task["drafter"].st = "failed"
  /\ task["drafter"].nreq = 1
  /\ callCount = 2
  /\ state.error = "Provider returned error"

\* C11: the call counter is the number of chat() calls that returned a text
\* since it was last reset: a step adds one to it exactly when a chat() call
\* returns, a failed attempt and a chat() call that ends in an error or in
\* Cancelled add nothing, and it decreases only in resetCallCount, which makes
\* it 0.
C11_CounterCountsReturnedCalls ==
  /\ [](callCount = returnedCalls - countedBefore)
  /\ [][\/ /\ callCount' = callCount + 1
            /\ returnedCalls' = returnedCalls + 1
            /\ countedBefore' = countedBefore
         \/ /\ callCount' = callCount
            /\ returnedCalls' = returnedCalls
            /\ countedBefore' = countedBefore
         \/ /\ callCount' = 0
            /\ returnedCalls' = returnedCalls
            /\ countedBefore' = returnedCalls]_vars

\* both interpretations and the draft returned, the critique failed on its third
\* retryable attempt: the counter is 3
C11_Witness ==
  /\ callCount = 3
  /\ countedBefore = 0
  /\ task["critic"].kind = "critique"
  /\ task["critic"].st = "failed"
  /\ task["critic"].err.isRetryable
  /\ task["critic"].nreq = 3

\* C12: when process() returns an error after the refinement loop has produced
\* and parsed a draft, atomicNotes holds the notes of the latest parsed draft;
\* atomicNotes is empty only when no draft existed.
C12_PartialNotesReturned ==
  (result.returned /\ state.phase = "error" /\ refine.transcript # <<>>) =>
     result.atomicNotes = refine.currentNotes

\* C13: RefinementLoop.run returns approved = false only when maxRounds
\* critiques were received and none of them began with an approval or marginal
\* keyword, and it then returns the notes parsed from the last draft; every
\* other return has approved = true.
C13_UnapprovedOnlyWhenExhausted ==
  refinementResult.returned =>
    /\ refinementResult.approved <=> signalled.approved
    /\ ~refinementResult.approved =>
          /\ calls["critique"] = maxRefinementRounds
          /\ refinementResult.rounds = maxRefinementRounds
          /\ Len(refinementResult.transcript) = 2 * maxRefinementRounds
          /\ refinementResult.notes = parse(latest.draft)
          /\ result.atomicNotes = refinementResult.notes

\* the budget of two rounds used up, the revision's note returned
C13_Witness ==
  /\ refinementResult.returned
  /\ ~refinementResult.approved
  /\ maxRefinementRounds = 2
  /\ calls["critique"] = 2
  /\ latest.draft = "### Note\nBody [t](u)"
  /\ Len(refinementResult.notes) = 1
  /\ refinementResult.notes[1].heading = "Note"

\* C14: once a critique began with an approval or marginal keyword, the session
\* has ended in the step that received it and no request is pending; unless the
\* token was cancelled, RefinementLoop.run returned approved = true, rounds =
\* the number of critiques, and the notes of the draft that critique reviewed,
\* with no revision requested after it. A marginal critique ends the loop as an
\* approved one does.
C14_ApprovalEndsLoop ==
  signalled.approved =>
    /\ pc = "returned"
    /\ \A r \in Roles : task[r].st \notin {"inflight", "sleeping"}
    /\ parseCritiqueStatus(latest.critique) \in {"approved", "marginal"}
    /\ calls["revision"] = calls["critique"] - 1
    /\ refinementResult.returned \/ thrown = CancelledError
    /\ refinementResult.returned =>
          /\ refinementResult.approved
          /\ refinementResult.rounds = calls["critique"]
          /\ refinementResult.notes = parse(latest.draft)
          /\ LET t == refinementResult.transcript
             IN  /\ t[Len(t)].content = latest.critique
                 /\ t[Len(t)].round = refinementResult.rounds
                 /\ t[Len(t) - 1].content = latest.draft
          /\ state.phase = "complete"

\* the second critique judges the remaining gains marginal: the revision it
\* reviewed is returned as approved in round 2
C14_Witness ==
  /\ refinementResult.returned
  /\ parseCritiqueStatus(latest.critique) = "marginal"
  /\ refinementResult.approved
  /\ refinementResult.rounds = 2
  /\ calls["revision"] = 1
  /\ refinementResult.notes = parse(latest.draft)
  /\ refinementResult.notes # <<>>

\* the first word of the text that is not white space, "" when there is none
RECURSIVE firstWord(_)
firstWord(ws) ==
  IF Len(ws) = 0 THEN ""
  ELSE IF ws[1] \in {" ", "\n"} THEN firstWord(Tail(ws))
  ELSE ws[1]

\* the words of the vocabulary that are, in some spelling, an approval keyword,
\* a marginal keyword, an alignment keyword
approvalWords == {"APPROVED", "approved."}
marginalWords == {"Marginal"}
alignmentWords == {"aligned", "We are aligned", "I agree with this interpretation"}

\* C15: a critique is 'approved' iff the first word after its leading white
\* space is an approval keyword in any case, 'marginal' iff it is a marginal
\* keyword, and 'needs work' otherwise; a critique that mentions APPROVED or
\* MARGINAL only after its beginning is 'needs work'.
C15_CritiqueStatusByPrefix ==
  applied.fn = "parseCritiqueStatus" =>
    applied.status =
      (IF firstWord(words) \in approvalWords THEN "approved"
       ELSE IF firstWord(words) \in marginalWords THEN "marginal"
       ELSE "needs_work")

\* 'not APPROVED' is a critique that needs work
C15_Witness ==
  /\ applied.fn = "parseCritiqueStatus"
  /\ words = <<"\n", "not ", "APPROVED">>
  /\ applied.status = "needs_work"

\* C16 as stated: a response that contains the word 'aligned' somewhere, but
\* not as its first word after trimming and case-folding, is not aligned.
C16_AlignedNotFirstIsFalse ==
  (/\ applied.fn = "isAligned"
   /\ \E i \in 1..Len(words) : words[i] \in {"aligned", "We are aligned"}
   /\ firstWord(words) # "aligned") =>
     ~applied.aligned

\* C16: a response that contains the word 'aligned' somewhere, but begins with
\* none of the alignment keywords after trimming and case-folding, is not
\* aligned.
C16_AlignedAfterOtherWordsIsFalse ==
  (/\ applied.fn = "isAligned"
   /\ \E i \in 1..Len(words) : words[i] \in {"aligned", "We are aligned"}
   /\ firstWord(words) \notin alignmentWords) =>
     ~applied.aligned

\* 'not aligned' is not aligned
C16_Witness ==
  /\ applied.fn = "isAligned"
  /\ words = <<"not ", "aligned">>
  /\ ~applied.aligned

\* C17: isAligned returns true for every response whose first word after its
\* leading white space is an alignment keyword in any case, whatever follows,
\* and false for every other response.
C17_AlignedIffKeywordFirst ==
  applied.fn = "isAligned" =>
    (applied.aligned <=> firstWord(words) \in alignmentWords)

\* a keyword after a blank and before other text
C17_Witness ==
  /\ applied.fn = "isAligned"
  /\ words = <<" ", "I agree with this interpretation", "not ">>
  /\ applied.aligned

\* C18 as stated: with maxRounds = 2, when the critic's answer in the alignment
\* loop is 'ALIGNED. We agree the article argues X.', the phase returns aligned
\* = true, rounds = 2 and 'We agree the article argues X.' as
\* alignedInterpretation.
C18_ShortSummaryReturned ==
  (/\ interpretationResult.returned
   /\ maxInterpretationRounds = 2
   /\ latest.claudeInterpretation = "ALIGNED. We agree the article argues X.") =>
     /\ interpretationResult.aligned
     /\ interpretationResult.rounds = 2
     /\ interpretationResult.alignedInterpretation = "We agree the article argues X."

\* C18: when an answer of the alignment loop began with an alignment keyword,
\* the phase returned aligned = true and rounds = the round the answer was
\* received in; alignedInterpretation is the text after the keyword without its
\* leading punctuation and white space when that text is longer than 50
\* characters, and the other role's latest interpretation when it is not, as for
\* 'ALIGNED. We agree the article argues X.'.
C18_AlignedSummaryOrFallback ==
  (interpretationResult.returned /\ signalled.aligned) =>
    LET byCritic == calls["alignment"] % 2 = 1
        response == IF byCritic THEN latest.claudeInterpretation
                    ELSE latest.gptInterpretation
        other == IF byCritic THEN interpretationResult.gptInterpretation
                 ELSE interpretationResult.claudeInterpretation
    IN  /\ interpretationResult.aligned
        /\ interpretationResult.rounds = calls["alignment"] + 1
        /\ interpretationResult.alignedInterpretation =
             (CASE response = "ALIGNED. We agree the article argues X." -> other
                [] response = " aligned:\n- The article argues that X matters because of Y and Z." ->
                     "The article argues that X matters because of Y and Z."
                [] OTHER -> "")

\* two rounds, the critic answers 'ALIGNED. We agree the article argues X.': the
\* drafter's interpretation is the aligned one
C18_Witness ==
  /\ interpretationResult.returned
  /\ maxInterpretationRounds = 2
  /\ latest.claudeInterpretation = "ALIGNED. We agree the article argues X."
  /\ interpretationResult.aligned
  /\ interpretationResult.rounds = 2
  /\ interpretationResult.alignedInterpretation = "The thesis is X"
  /\ interpretationResult.gptInterpretation = "The thesis is X"

\* C19: no revision is requested after the critique that uses up the budget:
\* at most maxRounds - 1 revisions are ever requested, and when
\* RefinementLoop.run returns, every revision has been reviewed (the transcript
\* ends with a critique, one more critique than revisions). With maxRounds = 1
\* and a critique that needs work, exactly the draft and one critique were
\* requested and the result is approved = false, rounds = 1, notes = parse of
\* the initial draft.
C19_NoRevisionAfterLastCritique ==
  /\ calls["revision"] <= maxRefinementRounds - 1
  /\ calls["revision"] <= calls["critique"]
  /\ refinementResult.returned =>
        LET t == refinementResult.transcript
        IN  /\ calls["revision"] = calls["critique"] - 1
            /\ Len(t) = calls["draft"] + calls["critique"] + calls["revision"]
            /\ t[Len(t)].type = "critique"
  /\ (refinementResult.returned /\ maxRefinementRounds = 1 /\ ~signalled.approved) =>
        /\ calls["draft"] = 1 /\ calls["critique"] = 1 /\ calls["revision"] = 0
        /\ ~refinementResult.approved
        /\ refinementResult.rounds = 1
        /\ refinementResult.notes = parse(refinementResult.transcript[1].content)

\* one round, the critique asks for fixes: the initial draft's note is returned
C19_Witness ==
  /\ refinementResult.returned
  /\ maxRefinementRounds = 1
  /\ latest.critique = "Not approved: fix"
  /\ calls["draft"] = 1 /\ calls["critique"] = 1 /\ calls["revision"] = 0
  /\ ~refinementResult.approved
  /\ refinementResult.rounds = 1
  /\ Len(refinementResult.notes) = 1
  /\ refinementResult.notes = parse(refinementResult.transcript[1].content)

\* C20: for content longer than the ceiling, the text truncateContent retains
\* before its notice is a prefix of the content that ends at a word boundary:
\* it is empty, or it ends with white space, or white space follows it in the
\* content; also when the first maxChars characters hold no space.
C20_TruncationAtWordBoundary ==
  (applied.fn = "truncateContent" /\ Len(text) > applied.maxChars) =>
    LET n == Len(applied.truncated) - Len(TRUNCATION_NOTICE)
    IN  /\ n >= 0
        /\ n <= applied.maxChars
        /\ SubSeq(applied.truncated, 1, n) = SubSeq(text, 1, n)
        /\ \/ n = 0
           \/ isWhitespace(charAt(text, n))
           \/ isWhitespace(charAt(text, n + 1))

\* C21: truncateContent returns content that is not longer than the ceiling as
\* it is, without a notice; for longer content it returns a prefix of the
\* content of at most ceiling characters followed by the truncation notice, so
\* that the output is at most ceiling + length of the notice long.
C21_TruncationPrefixAndLength ==
  applied.fn = "truncateContent" =>
    IF Len(text) <= applied.maxChars
    THEN applied.truncated = text
    ELSE /\ \E n \in 0..applied.maxChars :
              applied.truncated = SubSeq(text, 1, n) \o TRUNCATION_NOTICE
         /\ Len(applied.truncated) <= applied.maxChars + Len(TRUNCATION_NOTICE)

\* 'x aligned' under a ceiling of 3: the cut is at the space after 'x'
C21_Witness ==
  /\ applied.fn = "truncateContent"
  /\ words = <<"x", " ", "aligned">>
  /\ applied.maxChars = 3
  /\ applied.truncated = "x\n\n[Content truncated for length]"

\* C22: every note parse returns has a heading and a content that are not
\* empty and carry no white space around them, and its hasLink flag is true
\* exactly when its content, not its heading, holds a markdown link
\* [text](url).
C22_NotesNonEmptyAndLinkDerived ==
  applied.fn = "parse" =>
    \A i \in 1..Len(applied.notes) :
      LET note == applied.notes[i]
      IN  /\ note.heading # "" /\ note.heading = trim(note.heading)
          /\ note.content # "" /\ note.content = trim(note.content)
          /\ note.hasLink <=> hasMarkdownLink(note.content)
          /\ note.hasLink <=> includes(note.content, "[t](u)")

\* a note whose heading holds a link and whose body does not, then a note whose
\* body is a link; the segment without a heading between them gives no note
C22_Witness ==
  /\ applied.fn = "parse"
  /\ words = <<"### [t](u)\nz\n", "### \nx\n", "### L\n\n[t](u)\n">>
  /\ Len(applied.notes) = 2
  /\ applied.notes[1].heading = "[t](u)" /\ ~applied.notes[1].hasLink
  /\ applied.notes[2].content = "[t](u)" /\ applied.notes[2].hasLink

\* the sequence without its i-th element
without(ws, i) == SubSeq(ws, 1, i - 1) \o SubSeq(ws, i + 1, Len(ws))

\* C23: parse returns the empty list for the empty text and for text without a
\* heading marker, discards the text before the first heading, drops a segment
\* that lacks a heading or a body without changing the notes of the other
\* segments, and returns the notes of well-formed segments in their order.
C23_ParseKeepsWellFormedSegments ==
  applied.fn = "parse" =>
    /\ (\A i \in 1..Len(words) : words[i] \in PlainTexts) => applied.notes = <<>>
    /\ (Len(words) > 0 /\ words[1] \in PlainTexts) =>
          applied.notes = parse(joinWords(Tail(words)))
    /\ \A i \in 1..Len(words) :
          (/\ words[i] \in MalformedSegments
           /\ (i = Len(words) \/ words[i + 1] \notin PlainTexts)) =>
             applied.notes = parse(joinWords(without(words, i)))
    /\ (\A i \in 1..Len(words) : words[i] \in WellFormedSegments) =>
          /\ Len(applied.notes) = Len(words)
          /\ \A i \in 1..Len(words) : <<applied.notes[i]>> = parse(words[i])

\* C24: InterpretationPhase.run goes on from its initial step, to the
\* alignment loop or to a failure, only when both initial chat() calls have
\* ended, with a text or with an error: once process() has left the initial
\* step, no request and no backoff delay of an initial call is pending.
C24_FanOutEndsBeforePhaseGoesOn ==
  pc \notin {"idle", "fanout"} =>
    \A r \in Roles :
      task[r].kind = "interpretation" => task[r].st \notin {"inflight", "sleeping"}

\* C25: the token is checked before each request, after each response and
\* before each backoff delay: no request is sent under a cancelled token, a
\* delay pending under a cancelled token was pending when cancel() was called,
\* and a session cancelled while it ran ends with the Cancelled failure.
C25_CancellationCheckedAtEveryBoundary ==
  /\ requestsWhileCancelled = 0
  /\ \A r \in Roles :
        (cancelled /\ task[r].st = "sleeping") => cancelledAt.st[r] = "sleeping"

\* C26: once process() has returned, the call counter is what it was at the
\* return (the totalApiCalls of the result) until the caller resets it, and 0
\* after the reset: no request of the session adds to it any more.
C26_CounterFixedAfterReturn ==
  result.returned =>
    callCount = (IF countedBefore = 0 THEN result.totalApiCalls ELSE resetCallCount)

\* C27: when the answer that began with an alignment keyword leaves, after the
\* keyword, a text of at most 50 characters ('ALIGNED. We agree the article
\* argues X.'), alignedInterpretation is the latest interpretation of the other
\* role, as the phase returns it, and not the earlier interpretation of the
\* role that answered.
C27_FallbackIsOtherRolesInterpretation ==
  LET byCritic == calls["alignment"] % 2 = 1
      response == IF byCritic THEN latest.claudeInterpretation
                  ELSE latest.gptInterpretation
      others == IF byCritic THEN latest.gptInterpretation
                ELSE latest.claudeInterpretation
      own == IF byCritic THEN interpretationResult.claudeInterpretation
             ELSE interpretationResult.gptInterpretation
  IN  (/\ interpretationResult.returned
       /\ signalled.aligned
       /\ response = "ALIGNED. We agree the article argues X.") =>
         /\ interpretationResult.aligned
         /\ interpretationResult.alignedInterpretation = others
         /\ others = (IF byCritic THEN interpretationResult.gptInterpretation
                      ELSE interpretationResult.claudeInterpretation)
         /\ own # others => interpretationResult.alignedInterpretation # own

\* the critic disagreed in round 2 and the drafter agreed in round 3 with a
\* short summary: the critic's disagreement is the aligned interpretation
C27_Witness ==
  /\ interpretationResult.returned
  /\ interpretationResult.aligned
  /\ calls["alignment"] = 2
  /\ latest.gptInterpretation = "ALIGNED. We agree the article argues X."
  /\ latest.claudeInterpretation = "I disagree: Y"
  /\ interpretationResult.gptInterpretation = "The thesis is X"
  /\ interpretationResult.alignedInterpretation = "I disagree: Y"
  /\ interpretationResult.rounds = 3

\* C28: in the alignment loop the critic is asked first and the roles then
\* alternate (the k-th request goes to the critic iff k is odd); a request
\* carries the asked role's own latest interpretation and shows it the other
\* role's latest interpretation; an answer that is not aligned has replaced
\* the interpretation of the role that gave it and no other, and the round is
\* 1 plus the number of such answers.
C28_AlignmentAlternates ==
  /\ \A r \in Roles :
        (task[r].kind = "alignment" /\ task[r].st \in {"inflight", "sleeping"}) =>
          /\ (r = "critic") <=> (calls["alignment"] % 2 = 1)
          /\ pc = (IF r = "critic" THEN "alignCritic" ELSE "alignDrafter")
          /\ task[otherRole(r)].st \notin {"inflight", "sleeping"}
          /\ interp.round = calls["alignment"]
          /\ task[r].messages =
               (IF r = "critic"
                THEN <<latest.claudeInterpretation, latest.gptInterpretation>>
                ELSE <<latest.gptInterpretation, latest.claudeInterpretation>>)
  /\ pc \in {"alignCritic", "alignDrafter"} =>
        /\ interp.currentGptInterpretation = latest.gptInterpretation
        /\ interp.currentClaudeInterpretation = latest.claudeInterpretation
        /\ ~signalled.aligned

\* the third request of the loop: the critic is asked again and is shown what
\* the drafter answered to the second
C28_Witness ==
  /\ pc = "alignCritic"
  /\ calls["alignment"] = 3
  /\ interp.round = 3
  /\ task["critic"].st = "inflight"
  /\ task["critic"].messages = <<"I disagree: Y", "We are not aligned">>
  /\ interp.currentGptInterpretation = "We are not aligned"
  /\ interp.currentClaudeInterpretation = "I disagree: Y"

\* the chat() calls that wait for a response or for a backoff delay
pending == {r \in Roles : task[r].st \in {"inflight", "sleeping"}}

\* C29: outside the initial step of the alignment phase at most one chat()
\* call of the session is pending, and in the initial step at most the two
\* initial calls are; a call of the alignment loop or of the refinement loop is
\* never pending beside another call, and process() waits for exactly that call.
C29_RequestsSequential ==
  /\ pc # "fanout" => Cardinality(pending) <= 1
  /\ pc = "fanout" => \A r \in pending : task[r].kind = "interpretation"
  /\ \A r \in pending :
        task[r].kind # "interpretation" =>
          /\ pending = {r}
          /\ pc = (CASE task[r].kind = "alignment" ->
                          (IF r = "critic" THEN "alignCritic" ELSE "alignDrafter")
                     [] task[r].kind = "draft" -> "draft"
                     [] task[r].kind = "critique" -> "critique"
                     [] task[r].kind = "revision" -> "revise"
                     [] OTHER -> "none")

\* the revision is awaited: the drafter's request is the only one pending
C29_Witness ==
  /\ pc = "revise"
  /\ pending = {"drafter"}
  /\ task["drafter"].kind = "revision"
  /\ task["drafter"].nsleep = 1
  /\ task["critic"].st = "done"
  /\ calls["critique"] = 1

\* the kinds of request RefinementLoop.run makes
refinementKinds == {"draft", "critique", "revision"}

\* C30: the transcript only grows, by one entry at its end in a step in which
\* a chat() call of the refinement loop returns its text under a token that is
\* not cancelled, the entry holding that text; no other step changes it. Its
\* first entry is the drafter's draft with round 1, its 2k-th entry the critic's
\* k-th critique with round k, and the entry after that the drafter's revision
\* with round k + 1.
C30_TranscriptAppendOnly ==
  /\ [](\A i \in 1..Len(refine.transcript) :
          LET e == refine.transcript[i]
          IN  /\ e.phase = "refinement"
              /\ e.role = (IF i % 2 = 1 THEN "drafter" ELSE "critic")
              /\ e.type = (IF i = 1 THEN "draft"
                           ELSE IF i % 2 = 0 THEN "critique" ELSE "revision")
              /\ e.round = (IF i % 2 = 0 THEN i \div 2 ELSE (i + 1) \div 2)
              /\ i = Len(refine.transcript) =>
                    e.content = (IF e.type = "critique" THEN latest.critique
                                 ELSE latest.draft))
  /\ [][LET t == refine.transcript
            returns == \E r \in Roles :
                         /\ task[r].kind \in refinementKinds
                         /\ task[r].st = "inflight"
                         /\ task'[r].out # ""
        IN  IF returns /\ ~cancelled
            THEN /\ Len(refine'.transcript) = Len(t) + 1
                 /\ SubSeq(refine'.transcript, 1, Len(t)) = t
            ELSE refine'.transcript = t]_vars

\* draft, critique, revision and second critique, each in the transcript once
C30_Witness ==
  /\ refinementResult.returned
  /\ Len(refinementResult.transcript) = 4
  /\ refinementResult.transcript = refine.transcript
  /\ refine.transcript[1] = TranscriptEntry("drafter", "draft", "intro\n### \nx\n### A\n\nb", 1)
  /\ refine.transcript[2] = TranscriptEntry("critic", "critique", "Not approved: fix", 1)
  /\ refine.transcript[3] = TranscriptEntry("drafter", "revision", "### Note\nBody [t](u)", 2)
  /\ refine.transcript[4] = TranscriptEntry("critic", "critique", " marginal gains", 2)

\* C32: the delay after the retryable failure of attempt a is 1000 * 2^a ms
\* plus the jitter, which is below 1000 ms, and at most RETRY_MAX_DELAY_MS =
\* 10000 ms: it is at least 1000, 2000, 4000 ms and below 2000, 3000, 5000 ms
\* for the attempts 0, 1, 2, so that its lower bound doubles with each attempt.
C32_BackoffDelayDoubles ==
  applied.fn = "backoffDelay" =>
    LET atLeast == CASE applied.attempt = 0 -> 1000
                     [] applied.attempt = 1 -> 2000
                     [] applied.attempt = 2 -> 4000
                     [] OTHER -> 10000
    IN  /\ applied.delay <= 10000
        /\ applied.delay >= atLeast
        /\ applied.delay = atLeast + applied.jitter \/ applied.delay = 10000
        /\ applied.delay < atLeast + 1000

\* the third attempt failed and the jitter is as large as it gets
C32_Witness ==
  /\ applied.fn = "backoffDelay"
  /\ applied.attempt = 2
  /\ applied.jitter = 999
  /\ applied.delay = 4999

\* C33: when RefinementLoop.run returns a result, its transcript has 2 * rounds
\* entries, the odd ones by the drafter and the even ones by the critic, the
\* first being the initial draft and the last a critique, and rounds is the
\* number of critique entries, which is the number of critiques the critic
\* returned.
C33_TranscriptTwicePerRound ==
  refinementResult.returned =>
    LET t == refinementResult.transcript
        critiques == {i \in 1..Len(t) : t[i].type = "critique"}
    IN  /\ refinementResult.rounds >= 1
        /\ Len(t) = 2 * refinementResult.rounds
        /\ \A i \in 1..Len(t) :
              t[i].role = (IF i % 2 = 1 THEN "drafter" ELSE "critic")
        /\ t[1].type = "draft"
        /\ t[Len(t)].type = "critique"
        /\ critiques = {i \in 1..Len(t) : i % 2 = 0}
        /\ refinementResult.rounds = Cardinality(critiques)
        /\ refinementResult.rounds = calls["critique"]

\* the first critique approves: one round, two entries
C33_Witness ==
  /\ refinementResult.returned
  /\ refinementResult.approved
  /\ refinementResult.rounds = 1
  /\ maxRefinementRounds = 2
  /\ Len(refinementResult.transcript) = 2
  /\ refinementResult.transcript[2].content = "APPROVED"

\* C34: the critic is always shown the last entry of the transcript, which is
\* the drafter's latest draft or revision and the one the current notes were
\* parsed from; when RefinementLoop.run returns a result, approved or not, the
\* transcript ends with that draft and the critique of it, and the notes are
\* the parse of that draft.
C34_NotesOfLastReviewedDraft ==
  /\ (task["critic"].kind = "critique" /\ task["critic"].st \in {"inflight", "sleeping"}) =>
        LET t == refine.transcript
        IN  /\ t[Len(t)].role = "drafter"
            /\ task["critic"].messages = <<t[Len(t)].content>>
            /\ refine.currentNotes = parse(t[Len(t)].content)
  /\ refinementResult.returned =>
        LET t == refinementResult.transcript
        IN  /\ t[Len(t)].type = "critique"
            /\ t[Len(t) - 1].role = "drafter"
            /\ refinementResult.notes = parse(t[Len(t) - 1].content)
            /\ result.atomicNotes = parse(t[Len(t) - 1].content)

\* the revision, not the draft before it, gives the notes of an approved result
C34_Witness ==
  /\ refinementResult.returned
  /\ refinementResult.approved
  /\ Len(refinementResult.transcript) = 4
  /\ refinementResult.transcript[1].content = "### Note\nBody [t](u)"
  /\ refinementResult.transcript[3].content = "intro\n### \nx\n### A\n\nb"
  /\ Len(refinementResult.notes) = 1
  /\ refinementResult.notes[1].heading = "A"
  /\ refinementResult.notes[1].content = "b"

\* C36: chat() waits one backoff delay after each retryable failure, the one
\* of the final attempt included: a call whose request is in flight has waited
\* one delay less than it made requests, a call that waits or that failed with
\* a retryable error has waited as many delays as it made requests, and a call
\* that failed with a retryable error made MAX_RETRIES requests and waited
\* MAX_RETRIES delays; while the final delay runs the call has not failed, and
\* process() has not returned unless the other initial call failed.
C36_DelayAfterEveryRetryableFailure ==
  \A r \in Roles :
    /\ task[r].st = "inflight" => task[r].nsleep = task[r].nreq - 1
    /\ task[r].st = "sleeping" =>
          /\ task[r].nsleep = task[r].nreq
          /\ task[r].nsleep = task[r].attempt + 1
          /\ makeRequest(task[r].lastOutcome).error.isRetryable
          /\ task[r].err = NoError
          /\ pc = "returned" => task[otherRole(r)].st = "failed"
    /\ (task[r].st = "failed" /\ task[r].err.isRetryable) =>
          /\ task[r].nreq = MAX_RETRIES
          /\ task[r].nsleep = MAX_RETRIES

\* the delay after the third failed attempt of the critique request is running
C36_Witness ==
  /\ pc = "critique"
  /\ task["critic"].st = "sleeping"
  /\ task["critic"].attempt = 2
  /\ task["critic"].nreq = 3
  /\ task["critic"].nsleep = 3
  /\ task["critic"].lastOutcome = HttpStatus(503)
  /\ ~result.returned

\* the chat() calls the session has made
callsMade ==
  calls["interpretation"] + calls["alignment"] + calls["draft"] + calls["critique"]
    + calls["revision"]

\* C37: with the budgets Ni and Nr a session makes at most 2 initial and Ni - 1
\* alignment calls, 1 draft, Nr critique and Nr - 1 revision calls, which is at
\* most (Ni + 1) + 2 * Nr chat() calls; each call makes at most one request per
\* attempt and at most MAX_RETRIES requests, so that the session makes at most
\* MAX_RETRIES * ((Ni + 1) + 2 * Nr) requests.
C37_WorkBounded ==
  LET Ni == maxInterpretationRounds
      Nr == maxRefinementRounds
      running == {r \in Roles : task[r].st \in {"inflight", "sleeping"}}
      nreqOf(r) == IF r \in running THEN task[r].nreq ELSE 0
  IN  /\ calls["interpretation"] <= 2
      /\ calls["alignment"] <= Ni - 1
      /\ calls["draft"] <= 1
      /\ calls["critique"] <= Nr
      /\ calls["revision"] <= Nr - 1
      /\ callsMade <= (Ni + 1) + 2 * Nr
      /\ \A r \in Roles : task[r].nreq <= MAX_RETRIES /\ task[r].nreq <= task[r].attempt + 1
      /\ MAX_RETRIES * (callsMade - Cardinality(running)) + nreqOf("drafter") + nreqOf("critic")
            <= MAX_RETRIES * ((Ni + 1) + 2 * Nr)

\* budgets of 4 and 2 used up: 9 calls, the last critique at its third request
C37_Witness ==
  /\ maxInterpretationRounds = 4
  /\ maxRefinementRounds = 2
  /\ callsMade = 9
  /\ calls["alignment"] = 3
  /\ calls["critique"] = 2
  /\ task["critic"].st = "inflight"
  /\ task["critic"].nreq = 3

\* the sequence has the element
has(seq, x) == \E i \in 1..Len(seq) : seq[i] = x

\* C38: the content of a note that parse returned holds no empty line, so it
\* counts as one paragraph, and validate never reports the issue
\* "Contains multiple paragraphs (may not be atomic)" for such a note.
C38_ParsedNoteIsOneParagraph ==
  /\ applied.fn \in {"parse", "validate"} =>
        \A i \in 1..Len(applied.notes) :
          /\ ~includes(applied.notes[i].content, "\n\n")
          /\ Len(paragraphs(applied.notes[i].content)) = 1
  /\ applied.fn = "validate" =>
        /\ applied.validation = validate(applied.notes[applied.note], applied.articleUrl)
        /\ ~has(applied.validation.issues, "Contains multiple paragraphs (may not be atomic)")

\* a note whose section had three paragraphs set apart by empty lines was
\* validated
C38_Witness ==
  /\ applied.fn = "validate"
  /\ Len(paragraphs(applied.notes[applied.note].raw)) > MAX_PARAGRAPHS
  /\ applied.notes[applied.note].content = "p\n[t](u)\nq"
  /\ applied.articleUrl = "https://u/a"
  /\ applied.validation.issues
       = <<"Heading is too short to be descriptive", "Content is too brief">>

\* the configuration of the session whose alignment phase returned the other
\* value of aligned
otherAligned(c) == [c EXCEPT !.interpretationResult.aligned = ~@]

\* C31: a request of the refinement loop is made only after the alignment
\* phase has returned and none of its calls is still running; and the aligned
\* flag is informational only: a session whose alignment phase returns the
\* same text with the other value of aligned goes on in the same way (with
\* the same calls, messages, notes, state and result) at the return of
\* the alignment phase and at every later step, whatever the responses are.
C31_AlignedFlagInformational ==
  LET C == Configuration
      alignmentKinds == {"interpretation", "alignment"}
  IN  /\ \A r \in Roles :
            task[r].kind \in refinementKinds =>
              /\ interpretationResult.returned
              /\ pc \in {"draft", "critique", "revise", "returned"}
              /\ \A q \in Roles :
                    task[q].kind \in alignmentKinds => task[q].st = "done"
      /\ pc \in {"fanout", "alignCritic", "alignDrafter"} =>
            \A t \in {interp.currentClaudeInterpretation,
                       combineInterpretations(interp.currentGptInterpretation,
                                              interp.currentClaudeInterpretation)},
              n \in 1..maxInterpretationRounds :
              interpretationReturn(C, TRUE, t, n)
                = otherAligned(interpretationReturn(C, FALSE, t, n))
      /\ interpretationResult.returned =>
            \A r \in Roles :
              /\ task[r].st = "inflight" =>
                    \A o \in Outcomes(task[r].kind) :
                      settle(otherAligned(C), r, o) = otherAligned(settle(C, r, o))
              /\ task[r].st = "sleeping" =>
                    wake(otherAligned(C), r) = otherAligned(wake(C, r))

\* the alignment phase ran out of rounds, and the session went on to notes
\* the critic approved
C31_Witness ==
  /\ interpretationResult.returned
  /\ ~interpretationResult.aligned
  /\ interpretationResult.rounds = maxInterpretationRounds
  /\ calls["alignment"] > 0
  /\ result.returned
  /\ state.phase = "complete"
  /\ refinementResult.approved
  /\ result.atomicNotes # <<>>

\* the values of the type DialoguePhase
DialoguePhase == {"interpreting", "aligned", "drafting", "refining", "complete", "error"}

\* the moves of state.phase the session may make (the token check that leads
\* from aligned to error runs in the step in which the alignment phase made its
\* own last check, so that the sessions here take the five other moves)
PhaseMoves ==
  {<<"interpreting", "aligned">>, <<"aligned", "drafting">>, <<"drafting", "complete">>,
   <<"interpreting", "error">>, <<"aligned", "error">>, <<"drafting", "error">>}

\* C35: state.phase starts as interpreting and moves only along interpreting,
\* aligned, drafting, complete, or to error from interpreting, aligned or
\* drafting; it never holds refining; the phase of a returned result is
\* complete or error; and when the refinement loop returns without approval,
\* its rounds used up, the session ends as complete with the notes of the last
\* draft in atomicNotes.
C35_PhaseMovesForward ==
  /\ phases[1] = "interpreting"
  /\ state.phase = phases[Len(phases)]
  /\ \A i \in 1..Len(phases) : phases[i] \in DialoguePhase \ {"refining"}
  /\ \A i \in 1..(Len(phases) - 1) : <<phases[i], phases[i + 1]>> \in PhaseMoves
  /\ result.returned <=> state.phase \in {"complete", "error"}
  /\ (refinementResult.returned /\ ~refinementResult.approved) =>
        /\ refinementResult.rounds = maxRefinementRounds
        /\ result.returned
        /\ state.phase = "complete"
        /\ state.error = ""
        /\ result.atomicNotes = refinementResult.notes
        /\ result.atomicNotes = parse(refine.currentDraft)
        /\ state.currentDraft = result.atomicNotes

\* the critic approved none of the drafts of a session with two refinement
\* rounds: the session is complete with the notes of the revised draft
C35_Witness ==
  /\ phases = <<"interpreting", "aligned", "drafting", "complete">>
  /\ maxRefinementRounds = 2
  /\ refinementResult.returned
  /\ ~refinementResult.approved
  /\ calls["revision"] = 1
  /\ result.atomicNotes # <<>>

\* C39: over all the process() runs of one orchestrator the counter is the
\* number of chat() calls that returned a text since the construction or the
\* last reset(); the totalApiCalls of a result is that number at the return,
\* the calls of earlier runs included; neither the call of process() nor a
\* step of a run lowers the counter; and the step that lowers it, reset(),
\* makes it 0 and changes nothing else.
C39_CounterSpansRuns ==
  /\ [](callCount = returnedCalls - countedBefore)
  /\ [][/\ (~result.returned /\ result'.returned) =>
             /\ result'.totalApiCalls = returnedCalls' - countedBefore'
             /\ result'.totalApiCalls >= callCount
        /\ (pc = "idle" \/ pc' = "idle") => callCount' = callCount
        /\ pc # "returned" => callCount' >= callCount
        /\ callCount' < callCount =>
             /\ callCount' = 0
             /\ UNCHANGED <<maxInterpretationRounds, maxRefinementRounds, cancelled,
                            pc, state, result, interp, interpretationResult, refine,
                            refinementResult, task, requestsWhileCancelled, thrown,
                            calls, latest, signalled, cancelledAt, phases, words,
                            applied>>]_vars

\* the second run on an orchestrator that was not reset returns: its four
\* calls and the four of the first run are counted
C39_Witness ==
  /\ countedBefore = -4
  /\ calls["critique"] = 1
  /\ state.phase = "complete"
  /\ result.returned
  /\ result.totalApiCalls = 8

====
